---------------------------- MODULE Spec2Model ----------------------------
(***************************************************************************)
(* A model of the VWR2A simulator/assembler (src/src/lcu.py, rc.py,        *)
(* simulator.py): the bit-packed LCU and RC instruction words, the LCU     *)
(* assembler and disassembler, the execution of one LCU instruction and    *)
(* the kernel run loop of SIMULATOR.run.                                   *)
(*                                                                         *)
(* Bit strings (Python str of '0'/'1') are sequences over {0,1}; hex       *)
(* strings are sequences of hex digits 0..15 (the "0x" prefix is left      *)
(* implicit).  Tuples returned by the code are TLA+ tuples in the same     *)
(* order.                                                                  *)
(***************************************************************************)
EXTENDS Integers, Sequences, FiniteSets, TLC

VARIABLES
    npStrict,   \* the numpy build: TRUE when np.binary_repr raises on an insufficient width
    wst,        \* instruction-word round trip under test (SpecWord)
    ast,        \* assembler call under test (SpecAsm)
    lcus,       \* vwr2a.lcus[col]: regs, imem, alu.newRes, branch, branch_pc, exit
    srfs,       \* vwr2a.srfs[col].regs
    rcRes,      \* vwr2a.rcs[col][row].alu.newRes
    mxcuSrfSel, \* srf_sel of the MXCU word of each column at each IMEM position
    last,       \* the locals of the most recent LCU.run call and how it ended
    nSteps,     \* number of LCU.run calls made
    kmem,       \* vwr2a.kmem: the descriptor of the configured kernel
    gimem,      \* vwr2a.imem.lcu_imem: the LCU words of the general IMEM
    lsuR7,      \* vwr2a.lsus[col].regs[7]
    sim,        \* SIMULATOR.run: its locals and how far it has come
    cst,        \* compileAsm on one line of the instruction file (SpecCompile)
    pest,       \* a call of an arithmetic function of PE, cgra_old.py (SpecOld)
    old,        \* a kernel run of the engine of cgra_old.py (SpecOld)
    cg,         \* a CGRA object of cgra_old.py: cursors, inputs, outputs, memory (SpecCgra)
    rcst        \* vwr2a.rcs[col][row].regs and the most recent RC.run call (SpecLCU)

lcuVars == <<lcus, srfs, rcRes, mxcuSrfSel, last, nSteps>>
simVars == <<kmem, gimem, lsuR7, sim>>
extVars == <<cst, pest, old, cg, rcst>>
vars == <<npStrict, wst, ast, lcuVars, simVars, extVars>>

-----------------------------------------------------------------------------
(* Program constants *)

LCU_NUM_DREG == 4
LCU_NUM_CREG == 64
LCU_IMEM_WIDTH == 20
RC_NUM_DREG == 2
RC_IMEM_WIDTH == 18
CGRA_ROWS == 4
CGRA_COLS == 2
SPM_NWORDS == 128
MAX_32b == 2147483647
MIN_32b == -MAX_32b - 1

Cols == 0..(CGRA_COLS - 1)
Rows == 0..(CGRA_ROWS - 1)

-----------------------------------------------------------------------------
(* Python / numpy string and integer conversions *)

Max(a, b) == IF a >= b THEN a ELSE b

RECURSIVE Pow2(_)
Pow2(n) == IF n = 0 THEN 1 ELSE 2 * Pow2(n - 1)

Rep(d, n) == [i \in 1..n |-> d]

\* bin(n)[2:] for n >= 0
RECURSIVE Bin(_)
Bin(n) == IF n < 2 THEN <<n>> ELSE Append(Bin(n \div 2), n % 2)

\* str.zfill(width)
ZFill(s, width) == IF Len(s) >= width THEN s ELSE Rep(0, width - Len(s)) \o s

\* int(s, 2)
RECURSIVE BinToInt(_)
BinToInt(s) ==
    IF Len(s) = 0 THEN 0
    ELSE 2 * BinToInt(SubSeq(s, 1, Len(s) - 1)) + s[Len(s)]

\* hex(n)[2:] for n >= 0
RECURSIVE Hex(_)
Hex(n) == IF n < 16 THEN <<n>> ELSE Append(Hex(n \div 16), n % 16)

\* int(h, 16)
RECURSIVE HexToInt(_)
HexToInt(h) ==
    IF Len(h) = 0 THEN 0
    ELSE 16 * HexToInt(SubSeq(h, 1, Len(h) - 1)) + h[Len(h)]

\* Python slice s[a:b] (0-based, b exclusive, clipped to the string)
Slice(s, a, b) ==
    LET hi == IF b > Len(s) THEN Len(s) ELSE b
    IN  IF a >= hi THEN <<>> ELSE SubSeq(s, a + 1, hi)

\* the digits of numpy.binary_repr(num) for num < 0 and a given width:
\* two's complement on poswidth+1 bits
NegBinary(num) ==
    LET pw0 == Len(Bin(-num))
        poswidth == IF Pow2(pw0 - 1) = -num THEN pw0 - 1 ELSE pw0
    IN  Bin(Pow2(poswidth + 1) + num)

\* numpy.binary_repr(num, width) of a numpy that only warns on an
\* insufficient width: the string is then longer than width
BinaryRepr(num, width) ==
    IF num = 0 THEN Rep(0, width)
    ELSE IF num > 0 THEN ZFill(Bin(num), Max(Len(Bin(num)), width))
    ELSE LET binary == NegBinary(num)
             outwidth == Max(Len(binary), width)
         IN  Rep(1, outwidth - Len(binary)) \o binary

\* numpy.binary_repr's "insufficient bit width" condition
NpInsufficient(num, width) ==
    IF num = 0 THEN FALSE
    ELSE IF num > 0 THEN width < Len(Bin(num))
    ELSE width < Len(NegBinary(num))

-----------------------------------------------------------------------------
(* LCU_IMEM_WORD and RC_IMEM_WORD: an object is the record of its field    *)
(* bit strings and the whole word.  Field tuples follow decode_word:       *)
(* LCU <<imm, rf_wsel, rf_we, alu_op, br_mode, muxb_sel, muxa_sel>>,        *)
(* RC  <<rf_wsel, rf_we, muxf_sel, alu_op, op_mode, muxb_sel, muxa_sel>>.   *)

LCU_FIELD_WIDTHS == <<6, 2, 1, 4, 1, 3, 3>>
RC_FIELD_WIDTHS == <<1, 1, 3, 4, 1, 4, 4>>

\* the word is "".join((muxa_sel, muxb_sel, br_mode, alu_op, rf_we, rf_wsel, imm))
LCU_JoinMut(b) == b[7] \o b[6] \o b[5] \o b[4] \o b[2] \o b[3] \o b[1]
LCU_Join(b) == b[7] \o b[6] \o b[5] \o b[4] \o b[3] \o b[2] \o b[1]

\* LCU_IMEM_WORD(imm=.., rf_wsel=.., ...): the fields form
LCU_IMEM_WORD_init(f) ==
    LET b == [i \in 1..7 |-> BinaryRepr(f[i], LCU_FIELD_WIDTHS[i])]
    IN  [fields |-> b, word |-> LCU_Join(b)]

\* a field whose np.binary_repr call has an insufficient width
LCU_IMEM_WORD_insufficient(f) ==
    \E i \in 1..7 : NpInsufficient(f[i], LCU_FIELD_WIDTHS[i])

\* the slices of the hex form and of set_word, as <<from, to>> of word[from:to]
LCU_SlicesMut == <<<<13, 19>>, <<12, 14>>, <<11, 12>>, <<7, 11>>, <<6, 7>>, <<3, 6>>, <<0, 3>>>>
LCU_Slices == <<<<14, 20>>, <<12, 14>>, <<11, 12>>, <<7, 11>>, <<6, 7>>, <<3, 6>>, <<0, 3>>>>

\* LCU_IMEM_WORD(hex_word=h)
LCU_IMEM_WORD_hex(h) ==
    LET extended_binary == ZFill(Bin(HexToInt(h)), LCU_IMEM_WIDTH)
    IN  [fields |-> [i \in 1..7 |->
                        Slice(extended_binary, LCU_Slices[i][1], LCU_Slices[i][2])],
         word |-> extended_binary]

\* LCU_IMEM_WORD.set_word(word): imm is word[14:], the rest as in the hex form
LCU_set_word(word) ==
    [fields |-> [i \in 1..7 |->
                    IF i = 1 THEN Slice(word, 14, Len(word))
                    ELSE Slice(word, LCU_Slices[i][1], LCU_Slices[i][2])],
     word |-> word]

\* get_word_in_hex of either word class
get_word_in_hex(o) == Hex(BinToInt(o.word))

\* decode_word of either word class
decode_word(o) == [i \in 1..7 |-> BinToInt(o.fields[i])]

\* the word is "".join((muxa_sel, muxb_sel, op_mode, alu_op, muxf_sel, rf_we, rf_wsel))
RC_Join(b) == b[7] \o b[6] \o b[5] \o b[4] \o b[3] \o b[2] \o b[1]

\* RC_IMEM_WORD(rf_wsel=.., rf_we=.., ...): the fields form
RC_IMEM_WORD_init(f) ==
    LET b == [i \in 1..7 |-> BinaryRepr(f[i], RC_FIELD_WIDTHS[i])]
    IN  [fields |-> b, word |-> RC_Join(b)]

RC_Slices == <<<<17, 18>>, <<16, 17>>, <<13, 16>>, <<9, 13>>, <<8, 9>>, <<4, 8>>, <<0, 4>>>>

\* RC_IMEM_WORD(hex_word=h)
RC_IMEM_WORD_hex(h) ==
    LET extended_binary == ZFill(Bin(HexToInt(h)), RC_IMEM_WIDTH)
    IN  [fields |-> [i \in 1..7 |->
                        Slice(extended_binary, RC_Slices[i][1], RC_Slices[i][2])],
         word |-> extended_binary]

\* RC_IMEM_WORD.set_word(word): rf_wsel is word[17:], the rest as in the hex form
RC_set_word(word) ==
    [fields |-> [i \in 1..7 |->
                    IF i = 1 THEN Slice(word, 17, Len(word))
                    ELSE Slice(word, RC_Slices[i][1], RC_Slices[i][2])],
     word |-> word]

-----------------------------------------------------------------------------
(* The LCU assembler and disassembler.  A mnemonic string is modelled by   *)
(* what asmToHex makes of it after replacing commas by spaces and          *)
(* splitting: [op, args], args a sequence of operand tokens [k, n]:        *)
(*   "Rn" [k |-> "R"], "SRF(n)" [k |-> "SRF"], "ZERO", "LAST", "ONE",      *)
(*   a decimal literal [k |-> "INT", n |-> value], any other text "BAD".   *)
(* The disassembler's string is modelled the same way: str(imm) is the     *)
(* INT token of the decoded value.                                         *)

SRF_N_REGS == 8

Tok(k, n) == [k |-> k, n |-> n]

LCU_ALU_OPS ==
    [NOP |-> 0, SADD |-> 1, SSUB |-> 2, SLL |-> 3, SRL |-> 4, SRA |-> 5,
     LAND |-> 6, LOR |-> 7, LXOR |-> 8, BEQ |-> 9, BNE |-> 10, BGEPD |-> 11,
     BLT |-> 12, JUMP |-> 13, EXIT |-> 14]

LCU_ALU_NAMES ==
    <<"SADD", "SSUB", "SLL", "SRL", "SRA", "LAND", "LOR", "LXOR",
      "BEQ", "BNE", "BGEPD", "BLT", "JUMP", "EXIT">>

\* the name of the member of LCU_ALU_OPS with this value (0..14)
LCU_ALU_NAME(v) == IF v = 0 THEN "NOP" ELSE LCU_ALU_NAMES[v]

LCU_MUXA_NAMES == <<"R0", "R1", "R2", "R3", "SRF", "LAST", "ZERO", "IMM">>
LCU_MUXB_NAMES == <<"R0", "R1", "R2", "R3", "SRF", "LAST", "ZERO", "ONE">>

lcu_arith_ops == {"SADD", "SSUB", "SLL", "SRL", "SRA", "LAND", "LOR", "LXOR"}
lcu_arith_i_ops == {"SADDI", "SSUBI", "SLLI", "SRLI", "SRAI", "LANDI", "LORI", "LXORI"}
lcu_rcmode_ops == {"BEQR", "BNER", "BLTR", "BGER"}
lcu_branch_ops == {"BEQ", "BNE", "BLT", "BGEPD"}

\* op[:-1] for the operation names of lcu_arith_i_ops and lcu_rcmode_ops
StripLast ==
    [SADDI |-> "SADD", SSUBI |-> "SSUB", SLLI |-> "SLL", SRLI |-> "SRL",
     SRAI |-> "SRA", LANDI |-> "LAND", LORI |-> "LOR", LXORI |-> "LXOR",
     BEQR |-> "BEQ", BNER |-> "BNE", BLTR |-> "BLT", BGER |-> "BGE"]

\* results of the operand parsers: raised (ValueError), none (None returned),
\* sel (the enum value), srf (the SRF index, -1 when the SRF is not named)
Parsed(raised, none, sel, srf) == [raised |-> raised, none |-> none, sel |-> sel, srf |-> srf]

\* LCU.parseDestArith: LCU_DEST_REGS has R0..R3 and SRF = 4
LCU_parseDestArith(rd) ==
    IF rd.k = "R" THEN
        IF rd.n \in 0..3 THEN Parsed(FALSE, FALSE, rd.n, -1)
        ELSE Parsed(TRUE, FALSE, 0, -1)
    ELSE IF rd.k = "SRF" THEN Parsed(FALSE, FALSE, 4, rd.n)
    ELSE Parsed(FALSE, TRUE, 0, -1)

\* LCU.parseMuxAArith: Rn, SRF(n), ZERO, LAST
LCU_parseMuxAArith(rs) ==
    IF rs.k = "R" THEN
        IF rs.n \in 0..3 THEN Parsed(FALSE, FALSE, rs.n, -1)
        ELSE Parsed(TRUE, FALSE, 0, -1)
    ELSE IF rs.k = "SRF" THEN Parsed(FALSE, FALSE, 4, rs.n)
    ELSE IF rs.k = "ZERO" THEN Parsed(FALSE, FALSE, 6, -1)
    ELSE IF rs.k = "LAST" THEN Parsed(FALSE, FALSE, 5, -1)
    ELSE Parsed(FALSE, TRUE, 0, -1)

\* LCU.parseMuxBArith: Rn, SRF(n), ZERO, LAST, ONE
LCU_parseMuxBArith(rs) ==
    IF rs.k = "R" THEN
        IF rs.n \in 0..3 THEN Parsed(FALSE, FALSE, rs.n, -1)
        ELSE Parsed(TRUE, FALSE, 0, -1)
    ELSE IF rs.k = "SRF" THEN Parsed(FALSE, FALSE, 4, rs.n)
    ELSE IF rs.k = "ZERO" THEN Parsed(FALSE, FALSE, 6, -1)
    ELSE IF rs.k = "LAST" THEN Parsed(FALSE, FALSE, 5, -1)
    ELSE IF rs.k = "ONE" THEN Parsed(FALSE, FALSE, 7, -1)
    ELSE Parsed(FALSE, TRUE, 0, -1)

\* results of asmToHex: status "ok" (a word is returned), "ValueError" (the
\* assembler's own error), "KeyError" (an unhandled enum lookup),
\* "NumpyValueError" (np.binary_repr refusing an insufficient width)
AsmFail(status) ==
    [status |-> status, srf_read |-> -1, srf_str |-> -1,
     word |-> [fields |-> <<>>, word |-> <<>>]]

\* return srf_read_index, srf_str_index, LCU_IMEM_WORD(fields...)
AsmWord(strict, srf_read, srf_str, f) ==
    IF strict /\ LCU_IMEM_WORD_insufficient(f) THEN AsmFail("NumpyValueError")
    ELSE [status |-> "ok", srf_read |-> srf_read, srf_str |-> srf_str,
          word |-> LCU_IMEM_WORD_init(f)]

\* the SRF range test of the arithmetic, branch and jump forms
LCU_SrfOutOfRange(i) == i > SRF_N_REGS

\* asmToHex, op in lcu_arith_ops
LCU_asmArith(s, strict) ==
    IF Len(s.args) < 3 THEN AsmFail("ValueError")
    ELSE
    LET d == LCU_parseDestArith(s.args[1])
        b == LCU_parseMuxBArith(s.args[2])
        a == LCU_parseMuxAArith(s.args[3])
        srf_read_index == IF b.srf # -1 THEN b.srf ELSE a.srf
    IN  IF d.raised \/ b.raised \/ a.raised THEN AsmFail("ValueError")
        ELSE IF LCU_SrfOutOfRange(a.srf) \/ LCU_SrfOutOfRange(b.srf) \/ LCU_SrfOutOfRange(d.srf)
            THEN AsmFail("ValueError")
        ELSE IF d.none \/ b.none \/ a.none THEN AsmFail("ValueError")
        ELSE IF b.srf # -1 /\ a.srf # -1 /\ b.srf # a.srf THEN AsmFail("ValueError")
        ELSE IF d.srf # -1 /\ srf_read_index # -1 /\ d.srf # srf_read_index
            THEN AsmFail("ValueError")
        ELSE LET rf_we == IF d.srf = -1 THEN 1 ELSE 0
                 rf_wsel == IF d.srf = -1 THEN d.sel ELSE 0
             IN  AsmWord(strict, srf_read_index, d.srf,
                         <<0, rf_wsel, rf_we, LCU_ALU_OPS[s.op], 0, b.sel, a.sel>>)

\* asmToHex, op in lcu_arith_i_ops
LCU_asmArithI(s, strict) ==
    IF Len(s.args) < 3 THEN AsmFail("ValueError")
    ELSE
    LET d == LCU_parseDestArith(s.args[1])
        b == LCU_parseMuxBArith(s.args[2])
        rt == s.args[3]
    IN  IF d.raised \/ b.raised THEN AsmFail("ValueError")
        ELSE IF b.srf > SRF_N_REGS \/ d.srf > SRF_N_REGS THEN AsmFail("ValueError")
        ELSE IF d.none \/ b.none THEN AsmFail("ValueError")
        ELSE IF rt.k # "INT" THEN AsmFail("ValueError")
        ELSE IF d.srf # -1 /\ b.srf # -1 /\ d.srf # b.srf THEN AsmFail("ValueError")
        ELSE LET rf_we == IF d.srf = -1 THEN 1 ELSE 0
                 rf_wsel == IF d.srf = -1 THEN d.sel ELSE 0
             IN  AsmWord(strict, b.srf, d.srf,
                         <<rt.n, rf_wsel, rf_we, LCU_ALU_OPS[StripLast[s.op]], 0, b.sel, 7>>)

\* asmToHex, op in lcu_rcmode_ops: LCU_ALU_OPS[op[:-1]] comes first
LCU_asmRcMode(s, strict) ==
    IF StripLast[s.op] \notin DOMAIN LCU_ALU_OPS THEN AsmFail("KeyError")
    ELSE IF Len(s.args) < 1 THEN AsmFail("ValueError")
    ELSE IF s.args[1].k # "INT" THEN AsmFail("ValueError")
    ELSE AsmWord(strict, -1, -1,
                 <<s.args[1].n, 0, 0, LCU_ALU_OPS[StripLast[s.op]], 1, 0, 0>>)

\* asmToHex, op in lcu_branch_ops: rs (first operand) is mux B, rt is mux A
LCU_asmBranch(s, strict) ==
    IF Len(s.args) < 3 THEN AsmFail("ValueError")
    ELSE
    LET a == LCU_parseMuxAArith(s.args[2])
        b == LCU_parseMuxBArith(s.args[1])
        imm_str == s.args[3]
        srf_str_index == IF s.op = "BGEPD" THEN b.srf ELSE -1
    IN  IF a.raised \/ b.raised THEN AsmFail("ValueError")
        ELSE IF LCU_SrfOutOfRange(b.srf) \/ LCU_SrfOutOfRange(a.srf) THEN AsmFail("ValueError")
        ELSE IF b.none \/ a.none THEN AsmFail("ValueError")
        ELSE IF imm_str.k # "INT" THEN AsmFail("ValueError")
        ELSE IF a.srf # -1 /\ a.srf # srf_str_index THEN AsmFail("ValueError")
        ELSE AsmWord(strict, a.srf, srf_str_index,
                     <<imm_str.n, 0, 0, LCU_ALU_OPS[s.op], 0, b.sel, a.sel>>)

\* asmToHex, op in lcu_jump_ops: a second operand that is no mux A name is the immediate
LCU_asmJump(s, strict) ==
    IF Len(s.args) < 2 THEN AsmFail("ValueError")
    ELSE
    LET b == LCU_parseMuxBArith(s.args[1])
        a == LCU_parseMuxAArith(s.args[2])
        rt == s.args[2]
        srf_read_index == IF b.srf # -1 THEN b.srf ELSE a.srf
    IN  IF b.raised \/ a.raised THEN AsmFail("ValueError")
        ELSE IF LCU_SrfOutOfRange(b.srf) \/ LCU_SrfOutOfRange(a.srf) THEN AsmFail("ValueError")
        ELSE IF b.none THEN AsmFail("ValueError")
        ELSE IF a.none /\ rt.k # "INT" THEN AsmFail("ValueError")
        ELSE IF b.srf # -1 /\ a.srf # -1 /\ b.srf # a.srf THEN AsmFail("ValueError")
        ELSE AsmWord(strict, srf_read_index, -1,
                     <<IF a.none THEN rt.n ELSE 0, 0, 0, LCU_ALU_OPS[s.op], 0, b.sel,
                       IF a.none THEN 7 ELSE a.sel>>)

\* LCU.asmToHex(instr)
LCU_asmToHex(s, strict) ==
    IF s.op \in lcu_arith_ops THEN LCU_asmArith(s, strict)
    ELSE IF s.op \in lcu_arith_i_ops THEN LCU_asmArithI(s, strict)
    ELSE IF s.op \in lcu_rcmode_ops THEN LCU_asmRcMode(s, strict)
    ELSE IF s.op \in lcu_branch_ops THEN LCU_asmBranch(s, strict)
    ELSE IF s.op = "JUMP" THEN LCU_asmJump(s, strict)
    ELSE IF s.op \in {"NOP", "EXIT"} THEN
        IF Len(s.args) > 0 THEN AsmFail("ValueError")
        ELSE AsmWord(strict, -1, -1, <<0, 0, 0, LCU_ALU_OPS[s.op], 0, 0, 0>>)
    ELSE AsmFail("ValueError")

\* the operand text of a mux name: "SRF" becomes "SRF(srf_sel)", "IMM" str(imm)
MuxAsm(name, srf_sel, imm) ==
    IF name = "SRF" THEN Tok("SRF", srf_sel)
    ELSE IF name = "IMM" THEN Tok("INT", imm)
    ELSE IF name \in {"R0", "R1", "R2", "R3"}
        THEN Tok("R", CHOOSE i \in 0..3 : LCU_MUXB_NAMES[i + 1] = name)
    ELSE Tok(name, 0)

\* LCU_IMEM_WORD.get_word_in_asm(srf_sel)
LCU_get_word_in_asm(o, srf_sel) ==
    LET f == decode_word(o)
        imm == f[1]
        alu_op == IF f[4] = 15 THEN 0 ELSE f[4]
        alu_asm == LCU_ALU_NAME(alu_op)
        muxb_asm == MuxAsm(LCU_MUXB_NAMES[f[6] + 1], srf_sel, imm)
        muxa_asm == MuxAsm(LCU_MUXA_NAMES[f[7] + 1], srf_sel, imm)
        imm_asm == IF LCU_MUXA_NAMES[f[7] + 1] = "IMM" THEN "I" ELSE ""
        dest == IF f[3] = 1 THEN Tok("R", f[2]) ELSE Tok("SRF", srf_sel)
    IN  IF f[5] = 1 THEN [op |-> alu_asm \o "R", args |-> <<Tok("INT", imm)>>]
        ELSE IF alu_asm \in {"NOP", "EXIT"} THEN [op |-> alu_asm, args |-> <<>>]
        ELSE IF alu_asm \in {"BEQ", "BNE", "BLT", "BGEPD"}
            THEN [op |-> alu_asm, args |-> <<muxb_asm, muxa_asm, Tok("INT", imm)>>]
        ELSE IF alu_asm = "JUMP" THEN [op |-> alu_asm, args |-> <<muxb_asm, muxa_asm>>]
        ELSE [op |-> alu_asm \o imm_asm, args |-> <<dest, muxb_asm, muxa_asm>>]

\* LCU.hexToAsm(instr, srf_sel)
LCU_hexToAsm(h, srf_sel) == LCU_get_word_in_asm(LCU_IMEM_WORD_hex(h), srf_sel)

-----------------------------------------------------------------------------
(* The RC assembler and disassembler.  Operand tokens in addition to those *)
(* of the LCU: "VWR_A/B/C" [k |-> "VWR", n |-> 0/1/2] (n = 3: another      *)
(* letter), "RCT/RCB/RCL/RCR" [k |-> "RC", n |-> 0..3] (n = 4: another     *)
(* letter), "MAX_INT", "MIN_INT" and the flag source "OWN".                *)

RC_ALU_OPS ==
    [NOP |-> 0, SADD |-> 1, SSUB |-> 2, SMUL |-> 3, SDIV |-> 4, SLL |-> 5,
     SRL |-> 6, SRA |-> 7, LAND |-> 8, LOR |-> 9, LXOR |-> 10,
     INB_SF_INA |-> 11, INB_ZF_INA |-> 12, FXP_MUL |-> 13, FXP_DIV |-> 14]

RC_ALU_NAMES ==
    <<"SADD", "SSUB", "SMUL", "SDIV", "SLL", "SRL", "SRA", "LAND", "LOR", "LXOR",
      "INB_SF_INA", "INB_ZF_INA", "FXP_MUL", "FXP_DIV">>

\* the operand text of the members of RC_MUX_SEL, by value 0..13
RC_MUX_TOKS ==
    <<Tok("VWR", 0), Tok("VWR", 1), Tok("VWR", 2), Tok("SRF", 0), Tok("R", 0),
      Tok("R", 1), Tok("RC", 0), Tok("RC", 1), Tok("RC", 2), Tok("RC", 3),
      Tok("ZERO", 0), Tok("ONE", 0), Tok("MAX_INT", 0), Tok("MIN_INT", 0)>>

\* the operand text of the members of RC_MUXF_SEL, by value 0..4
RC_MUXF_TOKS == <<Tok("OWN", 0), Tok("RC", 0), Tok("RC", 1), Tok("RC", 2), Tok("RC", 3)>>

rc_arith_ops ==
    {"SADD", "SSUB", "SMUL", "SDIV", "SLL", "SRL", "SRA", "LAND", "LOR", "LXOR",
     "SADD.H", "SSUB.H", "SMUL.H", "SDIV.H", "SLL.H", "SRL.H", "SRA.H", "LAND.H",
     "LOR.H", "MUL.FP", "DIV.FP"}
rc_half_ops ==
    {"SADD.H", "SSUB.H", "SMUL.H", "SDIV.H", "SLL.H", "SRL.H", "SRA.H", "LAND.H", "LOR.H"}
rc_flag_ops == {"SFGA", "ZFGA"}

\* results of RC.parseDestArith: raised, none (the 4-tuple, which the caller
\* cannot unpack), sel, srf (srf_str_index), vwr (vwr_str)
RcDest(raised, none, sel, srf, vwr) ==
    [raised |-> raised, none |-> none, sel |-> sel, srf |-> srf, vwr |-> vwr]

\* RC.parseDestArith: RC_DEST_REGS has R0, R1, SRF = 2, VWR = 3
RC_parseDestArith(rd) ==
    IF rd.k = "R" THEN
        IF rd.n \in 0..1 THEN RcDest(FALSE, FALSE, rd.n, -1, -1)
        ELSE RcDest(TRUE, FALSE, 0, -1, -1)
    ELSE IF rd.k = "SRF" THEN RcDest(FALSE, FALSE, 2, rd.n, -1)
    ELSE IF rd.k = "VWR" /\ rd.n \in 0..2 THEN RcDest(FALSE, FALSE, 3, -1, rd.n)
    ELSE RcDest(FALSE, TRUE, 0, -1, -1)

\* RC.parseMuxArith
RC_parseMuxArith(rs) ==
    IF rs.k = "R" THEN
        IF rs.n \in 0..1 THEN Parsed(FALSE, FALSE, 4 + rs.n, -1)
        ELSE Parsed(TRUE, FALSE, 0, -1)
    ELSE IF rs.k = "SRF" THEN Parsed(FALSE, FALSE, 3, rs.n)
    ELSE IF rs.k = "VWR" THEN
        IF rs.n \in 0..2 THEN Parsed(FALSE, FALSE, rs.n, -1)
        ELSE Parsed(TRUE, FALSE, 0, -1)
    ELSE IF rs.k = "RC" THEN
        IF rs.n \in 0..3 THEN Parsed(FALSE, FALSE, 6 + rs.n, -1)
        ELSE Parsed(TRUE, FALSE, 0, -1)
    ELSE IF rs.k = "ZERO" THEN Parsed(FALSE, FALSE, 10, -1)
    ELSE IF rs.k = "ONE" THEN Parsed(FALSE, FALSE, 11, -1)
    ELSE IF rs.k = "MAX_INT" THEN Parsed(FALSE, FALSE, 12, -1)
    ELSE IF rs.k = "MIN_INT" THEN Parsed(FALSE, FALSE, 13, -1)
    ELSE Parsed(FALSE, TRUE, 0, -1)

\* RC.parseFlag: RC_MUXF_SEL[flag], ValueError for any other text
RC_parseFlag(flag) ==
    IF flag.k = "OWN" THEN Parsed(FALSE, FALSE, 0, -1)
    ELSE IF flag.k = "RC" /\ flag.n \in 0..3 THEN Parsed(FALSE, FALSE, 1 + flag.n, -1)
    ELSE Parsed(TRUE, FALSE, 0, -1)

RC_AsmFail(status) ==
    [status |-> status, srf_read |-> -1, srf_str |-> -1, vwr_str |-> -1,
     word |-> [fields |-> <<>>, word |-> <<>>]]

\* return srf_read_index, srf_str_index, vwr_str, RC_IMEM_WORD(fields...)
RC_AsmWord(srf_read, srf_str, vwr_str, f) ==
    [status |-> "ok", srf_read |-> srf_read, srf_str |-> srf_str, vwr_str |-> vwr_str,
     word |-> RC_IMEM_WORD_init(f)]

\* the SRF range test of RC.asmToHex
RC_SrfOutOfRange(i) == i >= SRF_N_REGS

\* rf_we, rf_wsel of an RC word: a local register is written only when the
\* destination is neither the SRF nor a VWR
RC_WriteFieldsMut(d) == <<d.sel, IF d.srf = -1 THEN 1 ELSE 0>>
RC_WriteFields(d) ==
    IF d.srf = -1 /\ d.vwr = -1 THEN <<d.sel, 1>> ELSE <<0, 0>>

\* asmToHex, op in rc_arith_ops
RC_asmArith(s) ==
    IF s.op \in rc_half_ops \/ s.op = "DIV.FP" THEN RC_AsmFail("ValueError")
    ELSE IF Len(s.args) < 3 THEN RC_AsmFail("ValueError")
    ELSE
    LET alu_op == IF s.op = "MUL.FP" THEN RC_ALU_OPS["FXP_MUL"] ELSE RC_ALU_OPS[s.op]
        d == RC_parseDestArith(s.args[1])
        a == RC_parseMuxArith(s.args[2])
        b == RC_parseMuxArith(s.args[3])
        srf_read_index == IF b.srf # -1 THEN b.srf ELSE a.srf
        w == RC_WriteFields(d)
    IN  IF d.raised \/ d.none THEN RC_AsmFail("ValueError")
        ELSE IF a.raised \/ b.raised THEN RC_AsmFail("ValueError")
        ELSE IF RC_SrfOutOfRange(a.srf) \/ RC_SrfOutOfRange(b.srf) \/ RC_SrfOutOfRange(d.srf)
            THEN RC_AsmFail("ValueError")
        ELSE IF a.none \/ b.none THEN RC_AsmFail("ValueError")
        ELSE IF b.srf # -1 /\ a.srf # -1 /\ b.srf # a.srf THEN RC_AsmFail("ValueError")
        ELSE IF d.srf # -1 /\ srf_read_index # -1 /\ d.srf # srf_read_index
            THEN RC_AsmFail("ValueError")
        ELSE RC_AsmWord(srf_read_index, d.srf, d.vwr,
                        <<w[1], w[2], 0, alu_op, 0, b.sel, a.sel>>)

\* asmToHex, op in rc_flag_ops: no SRF range test is made on the destination
RC_asmFlag(s) ==
    IF Len(s.args) < 2 THEN RC_AsmFail("ValueError")
    ELSE
    LET alu_op == IF s.op = "SFGA" THEN RC_ALU_OPS["INB_SF_INA"] ELSE RC_ALU_OPS["INB_ZF_INA"]
        d == RC_parseDestArith(s.args[1])
        fl == RC_parseFlag(s.args[2])
        w == RC_WriteFields(d)
    IN  IF d.raised \/ d.none \/ fl.raised THEN RC_AsmFail("ValueError")
        ELSE RC_AsmWord(-1, d.srf, d.vwr, <<w[1], w[2], fl.sel, alu_op, 0, 0, 0>>)

\* RC.asmToHex(instr)
RC_asmToHex(s) ==
    IF s.op \in rc_arith_ops THEN RC_asmArith(s)
    ELSE IF s.op = "NOP" THEN
        IF Len(s.args) > 0 THEN RC_AsmFail("ValueError")
        ELSE RC_AsmWord(-1, -1, -1, <<0, 0, 0, RC_ALU_OPS["NOP"], 0, 0, 0>>)
    ELSE IF s.op \in rc_flag_ops THEN RC_asmFlag(s)
    ELSE RC_AsmFail("ValueError")

\* RC_IMEM_WORD.get_word_in_asm(srf_sel, selected_vwr) for words whose
\* fields name members of the enums (alu_op <= 14, mux <= 13, muxf <= 4).
\* dest is looked up from the one-bit rf_wsel, so it is R0 or R1
RC_get_word_in_asm(o, srf_sel, selected_vwr) ==
    LET f == decode_word(o)
        mux(v) == IF RC_MUX_TOKS[v + 1].k = "SRF" THEN Tok("SRF", srf_sel)
                  ELSE RC_MUX_TOKS[v + 1]
        muxa_asm == mux(f[7])
        muxb_asm == mux(f[6])
        dest == IF f[1] <= 1 THEN Tok("R", f[1])
                ELSE IF f[1] = 2 THEN Tok("SRF", srf_sel) ELSE selected_vwr
        precision == IF f[5] = 0 THEN "" ELSE ".H"
        alu_asm == IF f[4] = 0 THEN "NOP" ELSE RC_ALU_NAMES[f[4]]
    IN  IF alu_asm = "INB_SF_INA" THEN [op |-> "SFGA", args |-> <<dest, RC_MUXF_TOKS[f[3] + 1]>>]
        ELSE IF alu_asm = "INB_ZF_INA"
            THEN [op |-> "ZFGA", args |-> <<dest, RC_MUXF_TOKS[f[3] + 1]>>]
        ELSE IF alu_asm = "NOP" THEN [op |-> "NOP", args |-> <<>>]
        ELSE IF alu_asm = "FXP_MUL" THEN [op |-> "MUL.FP", args |-> <<dest, muxa_asm, muxb_asm>>]
        ELSE IF alu_asm = "FXP_DIV" THEN [op |-> "DIV.FP", args |-> <<dest, muxa_asm, muxb_asm>>]
        ELSE [op |-> alu_asm \o precision, args |-> <<dest, muxa_asm, muxb_asm>>]

\* RC.hexToAsm(instr, srf_sel, selected_vwr)
RC_hexToAsm(h, srf_sel, selected_vwr) ==
    RC_get_word_in_asm(RC_IMEM_WORD_hex(h), srf_sel, selected_vwr)

-----------------------------------------------------------------------------
(* The ALU (alu.py): 32-bit two's complement, wrap on overflow.  The       *)
(* operators avoid intermediate values outside the 32-bit range.           *)

\* c_int32(a + b).value
Sadd32(a, b) ==
    IF b >= 0 THEN
        IF a <= MAX_32b - b THEN a + b
        ELSE (a - MAX_32b) + (b + MIN_32b) - 1
    ELSE
        IF a >= MIN_32b - b THEN a + b
        ELSE (a - MIN_32b) + (b + MAX_32b) + 1

\* c_int32(a - b).value
Ssub32(a, b) ==
    IF b >= 0 THEN
        IF a >= MIN_32b + b THEN a - b
        ELSE (a - MIN_32b) + (MAX_32b - b) + 1
    ELSE
        IF a <= MAX_32b + b THEN a - b
        ELSE (a - MAX_32b) + (MIN_32b - b) - 1

\* the 32 bits of a value, most significant first
ToBits32(x) ==
    IF x >= 0 THEN ZFill(Bin(x), 32)
    ELSE <<1>> \o ZFill(Bin((x + MAX_32b) + 1), 31)

FromBits32(b) ==
    IF b[1] = 0 THEN BinToInt(SubSeq(b, 2, 32))
    ELSE BinToInt(SubSeq(b, 2, 32)) + MIN_32b

BitwiseI(a, b, op) ==
    LET x == ToBits32(a)
        y == ToBits32(b)
    IN  FromBits32([i \in 1..32 |->
            IF op = "and" THEN (IF x[i] = 1 /\ y[i] = 1 THEN 1 ELSE 0)
            ELSE IF op = "or" THEN (IF x[i] = 1 \/ y[i] = 1 THEN 1 ELSE 0)
            ELSE (IF x[i] # y[i] THEN 1 ELSE 0)])

\* a << (b & 31), a >> (b & 31) logical, a >> (b & 31) arithmetic
ShiftI(a, b, op) ==
    LET x == ToBits32(a)
        k == b % 32
    IN  FromBits32([i \in 1..32 |->
            IF op = "sll" THEN (IF i + k <= 32 THEN x[i + k] ELSE 0)
            ELSE IF i - k >= 1 THEN x[i - k]
            ELSE IF op = "sra" THEN x[1] ELSE 0])

\* alu.newRes after the LCU's arithmetic operation alu_op (0..8) on (a, b)
ALU_newRes(alu_op, a, b, newRes) ==
    CASE alu_op = 0 -> newRes
      [] alu_op = 1 -> Sadd32(a, b)
      [] alu_op = 2 -> Ssub32(a, b)
      [] alu_op = 3 -> ShiftI(a, b, "sll")
      [] alu_op = 4 -> ShiftI(a, b, "srl")
      [] alu_op = 5 -> ShiftI(a, b, "sra")
      [] alu_op = 6 -> BitwiseI(a, b, "and")
      [] alu_op = 7 -> BitwiseI(a, b, "or")
      [] alu_op = 8 -> BitwiseI(a, b, "xor")

-----------------------------------------------------------------------------
(* LCU: the execution of one instruction *)

\* IMEM positions the model tracks per slot (the code has LCU_NUM_CREG of them)
NPos == 2

\* LCU_IMEM.set_word(kmem_word, pos) stores np.binary_repr(kmem_word, 20)
\* into an array of 20-byte strings, which keeps the first 20 characters
LCU_IMEM_set_word(imem, kmem_word, pos) ==
    [imem EXCEPT ![pos + 1] = Slice(BinaryRepr(kmem_word, LCU_IMEM_WIDTH), 0, LCU_IMEM_WIDTH)]

\* LCU_IMEM.get_word_in_hex(pos)
LCU_IMEM_get_word_in_hex(imem, pos) == Hex(BinToInt(imem[pos + 1]))

\* LCU.__init__
LCU_init ==
    [regs |-> Rep(0, LCU_NUM_DREG),
     imem |-> Rep(LCU_IMEM_WORD_init(<<0, 0, 0, 0, 0, 0, 0>>).word, NPos),
     newRes |-> 0, exit |-> 0, branch |-> 0, branch_pc |-> 0]

\* LCU.getMuxValue: [raised, val, regs, srf].  With bgepd and muxA set, the
\* register branches decrement the source and assign no muxValue, so the
\* return statement raises UnboundLocalError
LCU_getMuxValue(regs, srf, mux, srf_sel, imm, muxA, bgepd) ==
    LET ret(raised, val, r, f) == [raised |-> raised, val |-> val, regs |-> r, srf |-> f]
    IN  IF mux <= 3 THEN
            IF bgepd /\ muxA
            THEN ret(TRUE, 0, [regs EXCEPT ![mux + 1] = @ - 1], srf)
            ELSE ret(FALSE, regs[mux + 1], regs, srf)
        ELSE IF mux = 4 THEN
            IF bgepd /\ muxA
            THEN ret(TRUE, 0, regs, [srf EXCEPT ![srf_sel + 1] = @ - 1])
            ELSE ret(FALSE, srf[srf_sel + 1], regs, srf)
        ELSE IF mux = 5 THEN
            ret(FALSE, IF bgepd /\ muxA THEN (SPM_NWORDS \div CGRA_ROWS) - 2
                       ELSE (SPM_NWORDS \div CGRA_ROWS) - 1, regs, srf)
        ELSE IF mux = 6 THEN
            ret(FALSE, IF bgepd /\ muxA THEN -1 ELSE 0, regs, srf)
        ELSE
            ret(FALSE, IF muxA THEN (IF bgepd THEN imm - 1 ELSE imm) ELSE 1, regs, srf)

\* the flags of a conditional branch, br_mode = 0: from the LCU's own result
OwnFlags(newRes) ==
    [equal |-> newRes = 0, greater |-> newRes > 0]

\* the flags of a conditional branch, br_mode = 1: from the four RC results
RcFlags(rc) ==
    [equal |-> \E row \in Rows : rc[row + 1] = 0,
     greater |-> \E row \in Rows : rc[row + 1] > 0]

\* the tests that set self.branch = 1 for the conditional branches
BranchTakenMut(alu_op, equal, greater) ==
    \/ alu_op = 9 /\ equal
    \/ alu_op = 10 /\ ~equal
    \/ alu_op = 11 /\ greater
    \/ alu_op = 12 /\ ~(greater \/ equal)
BranchTaken(alu_op, equal, greater) ==
    \/ alu_op = 9 /\ equal
    \/ alu_op = 10 /\ ~equal
    \/ alu_op = 11 /\ (greater \/ equal)
    \/ alu_op = 12 /\ ~(greater \/ equal)

\* LCU.runAlu on the LCU record l: [raised, lcu]
LCU_runAlu(l, alu_op, muxa_val, muxb_val, imm, br_mode, rc) ==
    IF alu_op <= 8 THEN
        [raised |-> FALSE,
         lcu |-> [l EXCEPT !.newRes = ALU_newRes(alu_op, muxa_val, muxb_val, l.newRes)]]
    ELSE IF alu_op >= 9 /\ alu_op <= 12 THEN
        LET res == IF br_mode = 0 THEN Ssub32(muxa_val, muxb_val) ELSE l.newRes
            fl == IF br_mode = 0 THEN OwnFlags(res) ELSE RcFlags(rc)
            l1 == [l EXCEPT !.newRes = res]
        IN  [raised |-> FALSE,
             lcu |-> IF BranchTaken(alu_op, fl.equal, fl.greater)
                     THEN [l1 EXCEPT !.branch = 1, !.branch_pc = imm]
                     ELSE l1]
    ELSE IF alu_op = 13 THEN
        [raised |-> FALSE,
         lcu |-> [l EXCEPT !.branch = 1, !.branch_pc = muxb_val + muxa_val]]
    ELSE IF alu_op = 14 THEN
        [raised |-> FALSE, lcu |-> [l EXCEPT !.exit = 1]]
    ELSE [raised |-> TRUE, lcu |-> l]

NoCall ==
    [col |-> -1, pc |-> -1, f |-> <<0, 0, 0, 0, 0, 0, 0>>, muxa_val |-> 0, muxb_val |-> 0,
     err |-> "none"]

\* LCU.run(pc, vwr2a, col): [lcu, srf, last]
LCU_run(l, srf, rc, srf_sel, pc, col) ==
    LET f == decode_word(LCU_IMEM_WORD_hex(LCU_IMEM_get_word_in_hex(l.imem, pc)))
        imm == f[1]
        bgepd == f[4] = 11
        a == LCU_getMuxValue(l.regs, srf, f[7], srf_sel, imm, TRUE, bgepd)
        b == LCU_getMuxValue(a.regs, a.srf, f[6], srf_sel, imm, FALSE, bgepd)
        l1 == [l EXCEPT !.regs = b.regs]
        r == LCU_runAlu(l1, f[4], a.val, b.val, imm, f[5], rc)
        l2 == IF f[3] = 1 THEN [r.lcu EXCEPT !.regs[f[2] + 1] = r.lcu.newRes] ELSE r.lcu
        call(av, bv, err) ==
            [col |-> col, pc |-> pc, f |-> f, muxa_val |-> av, muxb_val |-> bv, err |-> err]
    IN  IF a.raised
        THEN [lcu |-> [l EXCEPT !.regs = a.regs], srf |-> a.srf,
              last |-> call(0, 0, "UnboundLocalError")]
        ELSE IF r.raised
        THEN [lcu |-> l1, srf |-> b.srf, last |-> call(a.val, b.val, "ALU op not recognized")]
        ELSE [lcu |-> l2, srf |-> b.srf, last |-> call(a.val, b.val, "ok")]

-----------------------------------------------------------------------------
(* The states in which nothing is under test *)

\* the array after CGRA construction: fresh LCUs, zeroed SRFs and RC results
LcuIdle ==
    /\ lcus = [c \in Cols |-> LCU_init]
    /\ srfs = [c \in Cols |-> Rep(0, SRF_N_REGS)]
    /\ rcRes = [c \in Cols |-> Rep(0, CGRA_ROWS)]
    /\ mxcuSrfSel = [c \in Cols |-> Rep(0, NPos)]
    /\ last = NoCall
    /\ nSteps = 0

Mn(op, args) == [op |-> op, args |-> args]

WordIdle ==
    [phase |-> "idle", kind |-> "none", args |-> <<>>, word |-> <<>>,
     hex |-> <<>>, via |-> "none", out |-> <<>>]

AsmIdle ==
    [phase |-> "idle", s |-> Mn("", <<>>), res |-> AsmFail("none"),
     via |-> "none", out |-> Mn("", <<>>)]

\* IMEM lines of the general instruction memory the model tracks
NLines == 2 * NPos + 2

\* the simulator after construction: no kernel configured, default IMEM words
SimIdle ==
    /\ kmem = [n_instr_per_col |-> 0, imem_start_addr |-> 0, col_one_hot |-> 0,
               srf_spm_bank |-> 0]
    /\ gimem = Rep(LCU_IMEM_WORD_init(<<0, 0, 0, 0, 0, 0, 0>>).word, NLines)
    /\ lsuR7 = [c \in Cols |-> 0]
    /\ sim = [status |-> "idle", pc |-> 0, n_instr_per_col |-> 0, ini_col |-> 0,
              end_col |-> 0, branch_flags |-> <<>>, exit_flags |-> <<>>,
              exit |-> FALSE, err |-> "none", cycles |-> 0]

\* compileAsm has not been called
CstIdle ==
    [phase |-> "idle", row |-> <<>>, status |-> "none", mxcu |-> <<>>]

\* no function of PE has been called
PeIdle == [phase |-> "idle", op |-> "", val1 |-> 0, val2 |-> 0, ret |-> 0]

\* the engine of cgra_old.py has not been started
OldIdle == [phase |-> "idle", limit |-> 0, steps |-> 0, status |-> "none"]

\* no method of the CGRA of cgra_old.py has been called; the lists are those
\* run() starts with
CgIdle ==
    [inputs |-> <<>>, outputs |-> <<>>, memory |-> <<>>,
     load_idx |-> [c \in Cols |-> 0], store_idx |-> [c \in Cols |-> 0],
     regs |-> [c \in Cols |-> 0], n |-> 0,
     last |-> [op |-> "none", args |-> <<>>, ret |-> <<>>, err |-> "none"]]

\* RC.__init__ for every RC of the array, and no RC.run call made
RcIdle ==
    [regs |-> [c \in Cols |-> [r \in Rows |-> Rep(0, RC_NUM_DREG)]],
     n |-> 0,
     last |-> [col |-> -1, row |-> -1, f |-> <<0, 0, 0, 0, 0, 0, 0>>, err |-> "none"]]

ExtIdle ==
    /\ cst = CstIdle
    /\ pest = PeIdle
    /\ old = OldIdle
    /\ cg = CgIdle
    /\ rcst = RcIdle

-----------------------------------------------------------------------------
(* SpecAsm: assemble one LCU mnemonic, then disassemble the word *)

DestToks ==
    {Tok("R", 0), Tok("R", 3), Tok("R", 4), Tok("SRF", 2), Tok("SRF", 8),
     Tok("SRF", 9), Tok("ZERO", 0)}

SrcToks ==
    {Tok("R", 1), Tok("R", 3), Tok("R", 4), Tok("SRF", 2), Tok("SRF", 3),
     Tok("SRF", 9), Tok("ZERO", 0), Tok("ONE", 0), Tok("LAST", 0), Tok("INT", 5)}

ImmToks ==
    {Tok("INT", -33), Tok("INT", -1), Tok("INT", 0), Tok("INT", 5), Tok("INT", 63),
     Tok("INT", 64), Tok("R", 1)}

LcuMnemonics ==
    {Mn(op, <<d, b, a>>) : op \in {"SADD", "LXOR"}, d \in DestToks, b \in SrcToks, a \in SrcToks}
    \cup {Mn(op, <<d, b, i>>) : op \in {"SADDI", "SRAI"}, d \in DestToks, b \in SrcToks, i \in ImmToks}
    \cup {Mn(op, <<i>>) : op \in lcu_rcmode_ops, i \in ImmToks}
    \cup {Mn(op, <<b, a, i>>) : op \in lcu_branch_ops, b \in SrcToks, a \in SrcToks, i \in ImmToks}
    \cup {Mn("JUMP", <<b, a>>) : b \in SrcToks, a \in SrcToks \cup ImmToks}
    \cup {Mn(op, <<>>) : op \in {"NOP", "EXIT", "BEQR", "SADD", "HALT"}}
    \cup {Mn(op, <<Tok("R", 0)>>) : op \in {"NOP", "EXIT", "JUMP", "BEQ"}}

\* the SRF index the mnemonic references (its first SRF operand), 0 when it names none
RefSrf(s) ==
    IF \E i \in 1..Len(s.args) : s.args[i].k = "SRF"
    THEN s.args[CHOOSE i \in 1..Len(s.args) :
                   /\ s.args[i].k = "SRF"
                   /\ \A j \in 1..(i - 1) : s.args[j].k # "SRF"].n
    ELSE 0

\* srf_read_idx, srf_str_idx, word = lcu.asmToHex(instr)
AsmAssemble ==
    /\ ast.phase = "idle"
    /\ \E s \in LcuMnemonics :
          ast' = [ast EXCEPT !.phase = "assembled", !.s = s,
                             !.res = LCU_asmToHex(s, npStrict)]
    /\ UNCHANGED <<npStrict, extVars, wst, lcuVars, simVars>>

\* lcu.hexToAsm(word.get_word_in_hex(), srf_sel)
AsmDisasmHex ==
    /\ ast.phase = "assembled"
    /\ ast.res.status = "ok"
    /\ ast' = [ast EXCEPT !.phase = "disassembled", !.via = "hex",
                  !.out = LCU_hexToAsm(get_word_in_hex(ast.res.word), RefSrf(ast.s))]
    /\ UNCHANGED <<npStrict, extVars, wst, lcuVars, simVars>>

\* word.get_word_in_asm(srf_sel) on the object asmToHex returned
AsmDisasmObj ==
    /\ ast.phase = "assembled"
    /\ ast.res.status = "ok"
    /\ ast' = [ast EXCEPT !.phase = "disassembled", !.via = "obj",
                  !.out = LCU_get_word_in_asm(ast.res.word, RefSrf(ast.s))]
    /\ UNCHANGED <<npStrict, extVars, wst, lcuVars, simVars>>

InitAsm ==
    /\ npStrict \in BOOLEAN
    /\ wst = WordIdle
    /\ ast = AsmIdle
    /\ LcuIdle
    /\ SimIdle
    /\ ExtIdle

RcDestToks ==
    {Tok("R", 0), Tok("R", 1), Tok("R", 2), Tok("SRF", 2), Tok("SRF", 7),
     Tok("SRF", 8), Tok("SRF", 9), Tok("VWR", 0), Tok("VWR", 2), Tok("VWR", 3),
     Tok("ZERO", 0)}

RcSrcToks ==
    {Tok("R", 0), Tok("R", 1), Tok("R", 2), Tok("SRF", 2), Tok("SRF", 3),
     Tok("SRF", 8), Tok("VWR", 1), Tok("VWR", 3), Tok("RC", 0), Tok("RC", 3),
     Tok("RC", 4), Tok("ZERO", 0), Tok("ONE", 0), Tok("MAX_INT", 0),
     Tok("MIN_INT", 0), Tok("INT", 5)}

RcFlagToks == {Tok("OWN", 0), Tok("RC", 0), Tok("RC", 3), Tok("RC", 4), Tok("R", 0)}

RcMnemonics ==
    {Mn(op, <<d, a, b>>) : op \in {"SADD", "LXOR"}, d \in RcDestToks,
                           a \in RcSrcToks, b \in RcSrcToks}
    \cup {Mn(op, <<d, Tok("R", 0), b>>) : op \in {"MUL.FP", "DIV.FP", "SADD.H", "SRA"},
                                          d \in RcDestToks, b \in RcSrcToks}
    \cup {Mn(op, <<d, fl>>) : op \in rc_flag_ops, d \in RcDestToks, fl \in RcFlagToks}
    \cup {Mn(op, <<>>) : op \in {"NOP", "SADD", "SFGA", "EXIT"}}
    \cup {Mn(op, <<Tok("R", 0)>>) : op \in {"NOP", "SADD", "SFGA"}}

\* the VWR the mnemonic writes, VWR_A when it writes none
RefVwr(s) ==
    IF Len(s.args) > 0 /\ s.args[1].k = "VWR" THEN s.args[1] ELSE Tok("VWR", 0)

\* srf_read_idx, srf_str_idx, vwr_str, word = rc.asmToHex(instr)
AsmAssembleRC ==
    /\ ast.phase = "idle"
    /\ \E s \in RcMnemonics :
          ast' = [ast EXCEPT !.phase = "rc_assembled", !.s = s, !.res = RC_asmToHex(s)]
    /\ UNCHANGED <<npStrict, extVars, wst, lcuVars, simVars>>

\* rc.hexToAsm(word.get_word_in_hex(), srf_sel, selected_vwr), or
\* word.get_word_in_asm(srf_sel, selected_vwr) on the object asmToHex returned
AsmDisasmRC ==
    /\ ast.phase = "rc_assembled"
    /\ ast.res.status = "ok"
    /\ \E via \in {"hex", "obj"} :
          ast' = [ast EXCEPT !.phase = "rc_disassembled", !.via = via,
                      !.out = IF via = "hex"
                              THEN RC_hexToAsm(get_word_in_hex(ast.res.word),
                                               RefSrf(ast.s), RefVwr(ast.s))
                              ELSE RC_get_word_in_asm(ast.res.word, RefSrf(ast.s),
                                                      RefVwr(ast.s))]
    /\ UNCHANGED <<npStrict, extVars, wst, lcuVars, simVars>>

NextAsm == AsmAssemble \/ AsmDisasmHex \/ AsmDisasmObj \/ AsmAssembleRC \/ AsmDisasmRC

SpecAsm == InitAsm /\ [][NextAsm]_vars

-----------------------------------------------------------------------------
(* SpecCompile: SIMULATOR.compileAsm on one line of the instruction file   *)
(* of one column: the LCU, LSU, MXCU and RC0..RC3 mnemonics of one cycle.  *)

\* LSU.asmToHex (lsu.py) on the forms "NOP", "SWD v" (v is read) and
\* "LWD d" (d is written), v and d a local register or SRF(n): the SRF
\* indices the LSU reports
LSU_asmToHex(s) ==
    IF s.op = "NOP" /\ Len(s.args) = 0 THEN [status |-> "ok", srf_read |-> -1, srf_str |-> -1]
    ELSE IF s.op \in {"SWD", "LWD"} /\ Len(s.args) = 1 /\ s.args[1].k \in {"R", "SRF"} THEN
        LET n == IF s.args[1].k = "SRF" THEN s.args[1].n ELSE -1
        IN  IF n >= SRF_N_REGS \/ (s.args[1].k = "R" /\ s.args[1].n > 7)
            THEN [status |-> "ValueError", srf_read |-> -1, srf_str |-> -1]
            ELSE [status |-> "ok", srf_read |-> IF s.op = "SWD" THEN n ELSE -1,
                  srf_str |-> IF s.op = "LWD" THEN n ELSE -1]
    ELSE [status |-> "ValueError", srf_read |-> -1, srf_str |-> -1]

\* srf.checkReadsWrites (srf.py): the indices the slots report that are not
\* -1 must be equal; srf_sel is the agreed index, 0 when there is none, and
\* srf_we is 1 when some slot writes
SRF_checkReadsWrites(reads, strs) ==
    LET idx == ({reads[i] : i \in 1..Len(reads)} \cup {strs[i] : i \in 1..Len(strs)}) \ {-1}
    IN  IF Cardinality(idx) > 1
        THEN [status |-> "Exception", srf_sel |-> 0, srf_we |-> 0]
        ELSE [status |-> "ok",
              srf_sel |-> IF idx = {} THEN 0 ELSE CHOOSE n \in idx : TRUE,
              srf_we |-> IF \E i \in 1..Len(strs) : strs[i] # -1 THEN 1 ELSE 0]

\* vwr_row_we = [0 if num == -1 else 1 for num in vwr_str_rc]
VwrRowWe(vwr_str_rc) == [r \in 1..CGRA_ROWS |-> IF vwr_str_rc[r] = -1 THEN 0 ELSE 1]

\* np.unique(vwr_str_rc) without -1
VwrUnique(vwr_str_rc) == {vwr_str_rc[r] : r \in 1..CGRA_ROWS} \ {-1}

\* the VWR checks of compileAsm: the letters the RCs write must agree;
\* vwr_sel is unique_vwr_str_rc[0], the smallest element, 0 by default
VwrSelMut(vwr_str_rc) ==
    LET u == VwrUnique(vwr_str_rc)
    IN  IF u \ {0, 1, 2} # {} THEN [status |-> "Exception", vwr_sel |-> 0]
        ELSE [status |-> "ok",
              vwr_sel |-> IF u = {} THEN 0 ELSE CHOOSE n \in u : \A k \in u : n <= k]
VwrSel(vwr_str_rc) ==
    LET u == VwrUnique(vwr_str_rc)
    IN  IF Cardinality(u) > 1 THEN [status |-> "Exception", vwr_sel |-> 0]
        ELSE IF u # {} /\ (CHOOSE n \in u : TRUE) \notin {0, 1, 2}
            THEN [status |-> "Exception", vwr_sel |-> 0]
        ELSE [status |-> "ok", vwr_sel |-> IF u = {} THEN 0 ELSE CHOOSE n \in u : TRUE]

\* mxcu.asmToHex(MXCU_inst, srf_sel, srf_we, alu_srf_write, vwr_row_we, vwr_sel)
\* (mxcu.py) on "NOP": the fields of the MXCU word that compileAsm supplies
MXCU_asmToHex(s, srf_sel, srf_we, vwr_row_we, vwr_sel) ==
    IF s.op = "NOP" /\ Len(s.args) = 0
    THEN [status |-> "ok",
          word |-> [srf_sel |-> srf_sel, srf_we |-> srf_we, vwr_row_we |-> vwr_row_we,
                    vwr_sel |-> vwr_sel]]
    ELSE [status |-> "ValueError", word |-> <<>>]

CompileFail(status) == [status |-> status, mxcu |-> <<>>]

\* the body of the parsing loop of compileAsm for one line: the first
\* exception ends the compilation before the MXCU word is made
CompileLine(row, strict) ==
    LET l == LCU_asmToHex(row.lcu, strict)
        ls == LSU_asmToHex(row.lsu)
        rc == [r \in 1..CGRA_ROWS |-> RC_asmToHex(row.rcs[r])]
        srf_read_idx_rc == [r \in 1..CGRA_ROWS |-> rc[r].srf_read]
        srf_str_idx_rc == [r \in 1..CGRA_ROWS |-> rc[r].srf_str]
        vwr_str_rc == [r \in 1..CGRA_ROWS |-> rc[r].vwr_str]
        chk == SRF_checkReadsWrites(<<l.srf_read, ls.srf_read>> \o srf_read_idx_rc,
                                    <<l.srf_str, ls.srf_str>> \o srf_str_idx_rc)
        vs == VwrSel(vwr_str_rc)
        mx == MXCU_asmToHex(row.mxcu, chk.srf_sel, chk.srf_we, VwrRowWe(vwr_str_rc),
                            vs.vwr_sel)
    IN  IF l.status # "ok" THEN CompileFail(l.status)
        ELSE IF ls.status # "ok" THEN CompileFail(ls.status)
        ELSE IF \E r \in 1..CGRA_ROWS : rc[r].status # "ok" THEN CompileFail("ValueError")
        ELSE IF chk.status # "ok" THEN CompileFail(chk.status)
        ELSE IF vs.status # "ok" THEN CompileFail(vs.status)
        ELSE IF mx.status # "ok" THEN CompileFail(mx.status)
        ELSE [status |-> "ok", mxcu |-> mx.word]

CompLcu ==
    {Mn("NOP", <<>>),
     Mn("SADD", <<Tok("R", 0), Tok("SRF", 3), Tok("ZERO", 0)>>),
     Mn("SADD", <<Tok("SRF", 5), Tok("R", 1), Tok("ZERO", 0)>>),
     Mn("SADD", <<Tok("R", 0), Tok("SRF", 3), Tok("SRF", 5)>>),
     Mn("SADDI", <<Tok("SRF", 5), Tok("SRF", 3), Tok("INT", 1)>>),
     Mn("BEQ", <<Tok("SRF", 3), Tok("R", 0), Tok("INT", 1)>>),
     Mn("BGEPD", <<Tok("SRF", 3), Tok("SRF", 5), Tok("INT", 1)>>),
     Mn("JUMP", <<Tok("SRF", 3), Tok("SRF", 5)>>)}

CompLsu ==
    {Mn("NOP", <<>>), Mn("SWD", <<Tok("SRF", 3)>>), Mn("LWD", <<Tok("SRF", 5)>>)}

CompRc ==
    {Mn("NOP", <<>>),
     Mn("SADD", <<Tok("SRF", 5), Tok("R", 0), Tok("R", 1)>>),
     Mn("SADD", <<Tok("SRF", 5), Tok("SRF", 3), Tok("R", 1)>>),
     Mn("SADD", <<Tok("VWR", 0), Tok("R", 0), Tok("R", 1)>>),
     Mn("SFGA", <<Tok("VWR", 1), Tok("OWN", 0)>>),
     Mn("SADD", <<Tok("VWR", 2), Tok("R", 0), Tok("SRF", 5)>>)}

CompRows ==
    [lcu : CompLcu, lsu : CompLsu, mxcu : {Mn("NOP", <<>>)}, rcs : [1..CGRA_ROWS -> CompRc]]

\* compileAsm(kernel_path, nInstrPerCol=1, colUsage=[True, False])
CompileAsm ==
    /\ cst.phase = "idle"
    /\ \E row \in CompRows :
          LET r == CompileLine(row, npStrict)
          IN  cst' = [phase |-> "compiled", row |-> row, status |-> r.status,
                      mxcu |-> r.mxcu]
    /\ UNCHANGED <<npStrict, wst, ast, lcuVars, simVars, pest, old, cg, rcst>>

InitCompile ==
    /\ npStrict = FALSE
    /\ wst = WordIdle
    /\ ast = AsmIdle
    /\ LcuIdle
    /\ SimIdle
    /\ ExtIdle

NextCompile == CompileAsm

SpecCompile == InitCompile /\ [][NextCompile]_vars

-----------------------------------------------------------------------------
(* SpecOld: the engine of cgra_old.py: the arithmetic functions of PE and  *)
(* the kernel run with a step limit.                                       *)

\* c_int32(val1 * val2).value: the sum, wrapped at every addition, of
\* val1 << i over the bits i of val2 in lo..hi (bit 0 is the least
\* significant), added up by halves of the range
RECURSIVE SmulAcc(_, _, _, _)
SmulAcc(a, y, lo, hi) ==
    IF lo = hi THEN (IF y[32 - lo] = 1 THEN ShiftI(a, lo, "sll") ELSE 0)
    ELSE LET mid == (lo + hi) \div 2
             low == SmulAcc(a, y, lo, mid)
             high == SmulAcc(a, y, mid + 1, hi)
         IN  Sadd32(low, high)

Smul32(a, b) == SmulAcc(a, ToBits32(b), 0, 31)

\* PE.sadd, PE.ssub, PE.smul
PE_saddMut(val1, val2) ==
    IF val2 >= 0 THEN (IF val1 <= MAX_32b - val2 THEN val1 + val2 ELSE MAX_32b)
    ELSE (IF val1 >= MIN_32b - val2 THEN val1 + val2 ELSE MIN_32b)
PE_sadd(val1, val2) == Sadd32(val1, val2)
PE_ssub(val1, val2) == Ssub32(val1, val2)
PE_smul(val1, val2) == Smul32(val1, val2)

\* operands at and around the ends of the 32-bit range and the 16-bit boundary
PEInputs ==
    {MIN_32b, MIN_32b + 1, -1073741824, -65537, -65536, -46341, -2, -1, 0, 1, 2, 3,
     46341, 65535, 65536, 1073741824, MAX_32b - 1, MAX_32b}

\* PE.ops_arith[op](val1, val2)
PECall(op) ==
    /\ pest.phase = "idle"
    /\ \E val1 \in PEInputs, val2 \in PEInputs :
          pest' = [phase |-> "returned", op |-> op, val1 |-> val1, val2 |-> val2,
                   ret |-> CASE op = "SADD" -> PE_sadd(val1, val2)
                             [] op = "SSUB" -> PE_ssub(val1, val2)
                             [] op = "SMUL" -> PE_smul(val1, val2)]
    /\ UNCHANGED <<npStrict, wst, ast, lcuVars, simVars, cst, old, cg, rcst>>

\* step limits the runs of the model are given
OldLimits == 0..3

\* run(kernel, limit=L) of cgra_old.py: the file names FILENAME_INSTR and
\* EXT are not defined in the module, so building the first path raises
OldRun ==
    /\ old.phase = "idle"
    /\ \E L \in OldLimits :
          old' = [phase |-> "ended", limit |-> L, steps |-> 0, status |-> "NameError"]
    /\ UNCHANGED <<npStrict, wst, ast, lcuVars, simVars, cst, pest, cg, rcst>>

\* CGRA(kernel, memory, inputs, outputs).run(pr, L): the constructor uses
\* N_ROWS and N_COLS where the module defines N_ROW and N_COL, and raises
OldCGRARun ==
    /\ old.phase = "idle"
    /\ \E L \in OldLimits :
          old' = [phase |-> "ended", limit |-> L, steps |-> 0,
                  status |-> "NameError in CGRA.__init__"]
    /\ UNCHANGED <<npStrict, wst, ast, lcuVars, simVars, cst, pest, cg, rcst>>

InitOld ==
    /\ npStrict = FALSE
    /\ wst = WordIdle
    /\ ast = AsmIdle
    /\ LcuIdle
    /\ SimIdle
    /\ ExtIdle

NextOld == PECall("SADD") \/ PECall("SSUB") \/ PECall("SMUL") \/ OldRun \/ OldCGRARun

SpecOld == InitOld /\ [][NextOld]_vars

-----------------------------------------------------------------------------
(* SpecCgra: the methods of the class CGRA of cgra_old.py that address the *)
(* neighbours, the input and output lists and the memory list, called on   *)
(* an object that holds these lists and the cursors, and the LWD and SWD   *)
(* branches of PE.run_instr.                                               *)

N_ROW == 4
N_COL == 2

\* method calls made on one object in a behaviour of the model
MaxCalls == 3

CgOk(ret) == [err |-> "none", ret |-> ret]
CgRaise(err) == [err |-> err, ret |-> <<>>]

\* CGRA.get_neighbour_address(r, c, dir).  MAX_COL and MAX_ROW are defined
\* nowhere in the module: evaluating either name raises NameError.  The
\* conditional expressions of RCL and RCT evaluate it only in their else
\* branch, those of RCR and RCB in their condition
get_neighbour_address(r, c, dir) ==
    IF dir = "RCL" THEN (IF c > 0 THEN CgOk(<<r, c - 1>>) ELSE CgRaise("NameError"))
    ELSE IF dir = "RCR" THEN CgRaise("NameError")
    ELSE IF dir = "RCT" THEN (IF r > 0 THEN CgOk(<<r - 1, c>>) ELSE CgRaise("NameError"))
    ELSE IF dir = "RCB" THEN CgRaise("NameError")
    ELSE CgOk(<<r, c>>)

\* CGRA.load_direct(c) on the object o: [o, err, ret]
load_direct(o, c) ==
    IF o.load_idx[c] >= Len(o.inputs)
    THEN [o |-> o, err |-> "IndexError", ret |-> 0]
    ELSE [o |-> [o EXCEPT !.load_idx[c] = @ + 1], err |-> "none",
          ret |-> o.inputs[o.load_idx[c] + 1][c + 1]]

\* CGRA.store_direct(c, val) on the object o: [o, err].  The row appended
\* when the cursor is at the end of outputs is [0]*N_COLS, and N_COLS is
\* defined nowhere in the module
store_direct(o, c, val) ==
    IF o.store_idx[c] >= Len(o.outputs)
    THEN [o |-> o, err |-> "NameError"]
    ELSE [o |-> [o EXCEPT !.outputs[o.store_idx[c] + 1][c + 1] = val,
                          !.store_idx[c] = @ + 1],
          err |-> "none"]

\* the rows of memory after the first one, in which both methods search
MemHits(memory, add) == {i \in 2..Len(memory) : memory[i][1] = add}

\* CGRA.load_indirect(add): the value of the first row after row 0 whose
\* address is add, -1 when there is none
load_indirect(memory, add) ==
    IF MemHits(memory, add) = {} THEN -1
    ELSE memory[CHOOSE i \in MemHits(memory, add) : \A j \in MemHits(memory, add) : i <= j][2]

\* CGRA.store_indirect(add, val): the memory list afterwards
store_indirect(memory, add, val) ==
    IF MemHits(memory, add) = {} THEN Append(memory, <<add, val>>)
    ELSE LET i == CHOOSE k \in MemHits(memory, add) : \A j \in MemHits(memory, add) : k <= j
         IN  [memory EXCEPT ![i] = <<add, val>>]

CgCall(op, args, ret, err) == [op |-> op, args |-> args, ret |-> ret, err |-> err]

\* get_neighbour_address(r, c, dir) for a cell of the grid
GetNeighbourAddress ==
    /\ cg.n < MaxCalls
    /\ \E r \in 0..(N_ROW - 1), c \in 0..(N_COL - 1), dir \in {"RCL", "RCR", "RCT", "RCB"} :
          LET res == get_neighbour_address(r, c, dir)
          IN  cg' = [cg EXCEPT !.n = @ + 1,
                               !.last = CgCall("get_neighbour_address", <<r, c, dir>>,
                                               res.ret, res.err)]
    /\ UNCHANGED <<npStrict, wst, ast, lcuVars, simVars, cst, pest, old, rcst>>

\* PE.run_instr("LWD R0") on the PE of row 0 of column c
RunLWD(c) ==
    /\ cg.n < MaxCalls
    /\ LET res == load_direct(cg, c)
       IN  cg' = [res.o EXCEPT !.n = @ + 1,
                               !.regs[c] = IF res.err = "none" THEN res.ret ELSE @,
                               !.last = CgCall("LWD", <<c>>, <<res.ret>>, res.err)]
    /\ UNCHANGED <<npStrict, wst, ast, lcuVars, simVars, cst, pest, old, rcst>>

\* PE.run_instr("SWD R0") on the PE of row 0 of column c
RunSWD(c) ==
    /\ cg.n < MaxCalls
    /\ LET res == store_direct(cg, c, cg.regs[c])
       IN  cg' = [res.o EXCEPT !.n = @ + 1,
                               !.last = CgCall("SWD", <<c>>, <<>>, res.err)]
    /\ UNCHANGED <<npStrict, wst, ast, lcuVars, simVars, cst, pest, old, rcst>>

\* addresses and values of the indirect accesses of the model
MemAddrs == {1, 2}
MemVals == {-1, 7}

\* load_indirect(add)
LoadIndirect ==
    /\ cg.n < MaxCalls
    /\ \E add \in MemAddrs :
          cg' = [cg EXCEPT !.n = @ + 1,
                           !.last = CgCall("load_indirect", <<add>>,
                                           <<load_indirect(cg.memory, add)>>, "none")]
    /\ UNCHANGED <<npStrict, wst, ast, lcuVars, simVars, cst, pest, old, rcst>>

\* store_indirect(add, val)
StoreIndirect ==
    /\ cg.n < MaxCalls
    /\ \E add \in MemAddrs, val \in MemVals :
          cg' = [cg EXCEPT !.n = @ + 1,
                           !.memory = store_indirect(cg.memory, add, val),
                           !.last = CgCall("store_indirect", <<add, val>>, <<>>, "none")]
    /\ UNCHANGED <<npStrict, wst, ast, lcuVars, simVars, cst, pest, old, rcst>>

\* the row 0 of a memory file that has one (the column titles: no address)
MemHeader == <<-1, -1>>

\* the lists the object is given: the rows of the input file, an output
\* list that is empty or holds one row, and a memory list that is empty,
\* holds the title row only, or holds the title row and one or two words
InitCgra ==
    /\ npStrict = FALSE
    /\ wst = WordIdle
    /\ ast = AsmIdle
    /\ LcuIdle
    /\ SimIdle
    /\ cst = CstIdle
    /\ pest = PeIdle
    /\ old = OldIdle
    /\ rcst = RcIdle
    /\ \E outputs \in {<<>>, <<<<0, 0>>>>},
          memory \in {<<>>, <<MemHeader>>, <<MemHeader, <<1, 5>>>>,
                      <<MemHeader, <<2, 5>>, <<1, 6>>>>} :
          cg = [CgIdle EXCEPT !.inputs = <<<<11, 21>>, <<12, 22>>>>,
                              !.outputs = outputs, !.memory = memory]

NextCgra ==
    \/ GetNeighbourAddress
    \/ \E c \in Cols : RunLWD(c)
    \/ \E c \in Cols : RunSWD(c)
    \/ LoadIndirect
    \/ StoreIndirect

SpecCgra == InitCgra /\ [][NextCgra]_vars

-----------------------------------------------------------------------------
(* SpecWord: build a word from fields, pack it, decode it again *)

LcuFieldInputs ==
    {<<imm, wsel, we, op, br, mb, ma>> :
        imm \in {0, 1, 21, 42, 63}, wsel \in 0..3, we \in 0..1,
        op \in {0, 5, 9, 10, 15}, br \in 0..1, mb \in {0, 3, 4, 7}, ma \in {0, 2, 5, 7}}

RcFieldInputs ==
    {<<wsel, we, mf, op, om, mb, ma>> :
        wsel \in 0..1, we \in 0..1, mf \in {0, 3, 4, 7},
        op \in {0, 5, 10, 15}, om \in 0..1, mb \in {0, 5, 10, 15}, ma \in {0, 3, 12, 15}}

\* w = LCU_IMEM_WORD(fields...); w.get_word(); w.get_word_in_hex()
WordBuildLCU ==
    /\ wst.phase = "idle"
    /\ \E f \in LcuFieldInputs :
          LET o == LCU_IMEM_WORD_init(f)
          IN  wst' = [phase |-> "packed", kind |-> "LCU", args |-> f, word |-> o.word,
                      hex |-> get_word_in_hex(o), via |-> "none", out |-> <<>>]
    /\ UNCHANGED <<npStrict, extVars, ast, lcuVars, simVars>>

\* w = RC_IMEM_WORD(fields...); w.get_word(); w.get_word_in_hex()
WordBuildRC ==
    /\ wst.phase = "idle"
    /\ \E f \in RcFieldInputs :
          LET o == RC_IMEM_WORD_init(f)
          IN  wst' = [phase |-> "packed", kind |-> "RC", args |-> f, word |-> o.word,
                      hex |-> get_word_in_hex(o), via |-> "none", out |-> <<>>]
    /\ UNCHANGED <<npStrict, extVars, ast, lcuVars, simVars>>

\* <WORD>(hex_word=hex).decode_word()
WordDecodeHex ==
    /\ wst.phase = "packed"
    /\ wst' = [wst EXCEPT !.phase = "decoded", !.via = "hex",
                  !.out = IF wst.kind = "LCU"
                          THEN decode_word(LCU_IMEM_WORD_hex(wst.hex))
                          ELSE decode_word(RC_IMEM_WORD_hex(wst.hex))]
    /\ UNCHANGED <<npStrict, extVars, ast, lcuVars, simVars>>

\* w = <WORD>(); w.set_word(word); w.decode_word()   (as the IMEM classes do)
WordDecodeSetWord ==
    /\ wst.phase = "packed"
    /\ wst' = [wst EXCEPT !.phase = "decoded", !.via = "set_word",
                  !.out = IF wst.kind = "LCU"
                          THEN decode_word(LCU_set_word(wst.word))
                          ELSE decode_word(RC_set_word(wst.word))]
    /\ UNCHANGED <<npStrict, extVars, ast, lcuVars, simVars>>

InitWord ==
    /\ npStrict = FALSE
    /\ wst = WordIdle
    /\ ast = AsmIdle
    /\ LcuIdle
    /\ SimIdle
    /\ ExtIdle

NextWord == WordBuildLCU \/ WordBuildRC \/ WordDecodeHex \/ WordDecodeSetWord

SpecWord == InitWord /\ [][NextWord]_vars

-----------------------------------------------------------------------------
(* SpecLCU: LCU.run on an array whose registers, RC results and first      *)
(* IMEM word are left by earlier activity                                  *)

MaxSteps == 2

\* (imm, rf_wsel, rf_we, alu_op, br_mode, muxb_sel, muxa_sel) of the words run
LcuTestFields ==
    {<<i, 0, 0, op, 0, mb, 7>> : i \in {0, 1, 2}, op \in 9..12, mb \in {6, 7}}
    \cup {<<2, 0, 0, op, 0, 1, ma>> : op \in 9..12, ma \in {0, 4}}
    \cup {<<2, 0, 0, op, 0, 7, 3>> : op \in {9, 10, 12}}
    \cup {<<1, 0, 0, 11, 0, 0, 6>>}
    \cup {<<i, 0, 0, op, 1, 0, 6>> : i \in {0, 3}, op \in 9..12}
    \cup {<<3, 0, 0, 11, 1, 0, 0>>}
    \cup {<<i, 0, 0, 13, 0, mb, 7>> : i \in {0, 1}, mb \in {1, 6, 7}}
    \cup {<<0, 0, 0, op, 0, 0, 0>> : op \in {0, 14, 15}}
    \cup {<<1, 0, 1, op, 0, 7, 0>> : op \in 1..8}
    \cup {<<2, 1, 1, op, 0, 1, 7>> : op \in 1..8}
    \cup {<<0, 3, 1, op, 0, 7, 3>> : op \in {1, 2, 4, 5}}
    \cup {<<1, 0, 0, 1, 0, 7, 0>>}

LcuRegInputs == {<<0, 0, 0, 0>>, <<3, 1, -1, MIN_32b>>}

RcResInputs == <<
    <<0, 0, 0, 0>>, <<0, 1, 1, 1>>, <<-1, -1, -1, -1>>, <<-1, 1, 2, -1>>, <<1, 1, 1, 1>> >>

InitLCU ==
    /\ npStrict = FALSE
    /\ wst = WordIdle
    /\ ast = AsmIdle
    /\ \E f \in LcuTestFields, r \in LcuRegInputs :
          lcus = [c \in Cols |->
                    [LCU_init EXCEPT
                        !.regs = r,
                        !.imem = LCU_IMEM_set_word(
                                     @, BinToInt(LCU_IMEM_WORD_init(f).word), 0)]]
    /\ \E v \in 1..Len(RcResInputs) :
          rcRes = [c \in Cols |->
                    IF c = 0 THEN RcResInputs[v]
                    ELSE RcResInputs[(v % Len(RcResInputs)) + 1]]
    /\ srfs = [c \in Cols |-> <<5, 2, 0, -1, 3, 1, 4, 7>>]
    /\ mxcuSrfSel = [c \in Cols |-> Rep(1, NPos)]
    /\ last = NoCall
    /\ nSteps = 0
    /\ SimIdle
    /\ ExtIdle

\* vwr2a.lcus[col].run(pc, vwr2a, col)
LCURun(col, pc) ==
    /\ nSteps < MaxSteps
    /\ LET r == LCU_run(lcus[col], srfs[col], rcRes[col], mxcuSrfSel[col][pc + 1], pc, col)
       IN  /\ lcus' = [lcus EXCEPT ![col] = r.lcu]
           /\ srfs' = [srfs EXCEPT ![col] = r.srf]
           /\ last' = r.last
    /\ nSteps' = nSteps + 1
    /\ UNCHANGED <<npStrict, extVars, wst, ast, rcRes, mxcuSrfSel, simVars>>

NextLCU == \E col \in Cols, pc \in 0..(NPos - 1) : LCURun(col, pc)

SpecLCU == InitLCU /\ [][NextLCU]_vars

-----------------------------------------------------------------------------
(* RC: the execution of one instruction *)

\* RC.getMuxValue(mux, vwr2a, col, srf_sel): [raised, val].  The VWR
\* inputs (0..2) read the slice of the VWR (vwr.py) that the MXCU selects,
\* which holds 0 in the arrays of the model; the neighbour inputs (6..9)
\* read res of the four ALU objects RC.__init__ creates, which no code runs
RC_getMuxValue(regs, srf, mux, srf_sel) ==
    IF mux <= 2 THEN [raised |-> FALSE, val |-> 0]
    ELSE IF mux = 3 THEN [raised |-> FALSE, val |-> srf[srf_sel + 1]]
    ELSE IF mux = 4 THEN [raised |-> FALSE, val |-> regs[1]]
    ELSE IF mux = 5 THEN [raised |-> FALSE, val |-> regs[2]]
    ELSE IF mux <= 9 THEN [raised |-> FALSE, val |-> 0]
    ELSE IF mux = 10 THEN [raised |-> FALSE, val |-> 0]
    ELSE IF mux = 11 THEN [raised |-> FALSE, val |-> 1]
    ELSE IF mux = 12 THEN [raised |-> FALSE, val |-> MAX_32b]
    ELSE IF mux = 13 THEN [raised |-> FALSE, val |-> MIN_32b]
    ELSE [raised |-> TRUE, val |-> 0]

\* RC.runAlu with half_precision (op_mode) = 0: [raised, newRes].  SDIV (4),
\* the flag selections (11, 12) and the fixed-point operations (13, 14) run
\* without raising; their result is computed in alu.py, they are in no word
\* the model executes and newRes is left as it was for them.  Only an
\* alu_op above 14 reaches the final raise
RC_runAlu(alu_op, muxa_val, muxb_val, newRes) ==
    IF alu_op = 0 THEN [raised |-> FALSE, newRes |-> newRes]
    ELSE IF alu_op = 1 THEN [raised |-> FALSE, newRes |-> Sadd32(muxa_val, muxb_val)]
    ELSE IF alu_op = 2 THEN [raised |-> FALSE, newRes |-> Ssub32(muxa_val, muxb_val)]
    ELSE IF alu_op = 3 THEN [raised |-> FALSE, newRes |-> Smul32(muxa_val, muxb_val)]
    ELSE IF alu_op = 5 THEN [raised |-> FALSE, newRes |-> ShiftI(muxa_val, muxb_val, "sll")]
    ELSE IF alu_op = 6 THEN [raised |-> FALSE, newRes |-> ShiftI(muxa_val, muxb_val, "srl")]
    ELSE IF alu_op = 7 THEN [raised |-> FALSE, newRes |-> ShiftI(muxa_val, muxb_val, "sra")]
    ELSE IF alu_op = 8 THEN [raised |-> FALSE, newRes |-> BitwiseI(muxa_val, muxb_val, "and")]
    ELSE IF alu_op = 9 THEN [raised |-> FALSE, newRes |-> BitwiseI(muxa_val, muxb_val, "or")]
    ELSE IF alu_op = 10 THEN [raised |-> FALSE, newRes |-> BitwiseI(muxa_val, muxb_val, "xor")]
    ELSE IF alu_op <= 14 THEN [raised |-> FALSE, newRes |-> newRes]
    ELSE [raised |-> TRUE, newRes |-> newRes]

\* "Write result locally": if rf_we == 1: self.regs[rf_wsel] = self.alu.newRes
RC_writeLocalMut(regs, rf_wsel, rf_we, newRes) == [regs EXCEPT ![rf_wsel + 1] = newRes]
RC_writeLocal(regs, rf_wsel, rf_we, newRes) ==
    IF rf_we = 1 THEN [regs EXCEPT ![rf_wsel + 1] = newRes] ELSE regs

\* RC.run(pc, vwr2a, col) on an RC with registers regs and ALU result
\* newRes whose IMEM word at pc has the fields f: [regs, newRes, err].
\* The first statement unpacks five values from the MXCU's
\* get_instruction_asm (mxcu.py); nvalues is the number that call returns
RC_run(regs, newRes, f, srf, srf_sel, nvalues) ==
    LET w == decode_word(RC_IMEM_WORD_hex(get_word_in_hex(RC_IMEM_WORD_init(f))))
        a == RC_getMuxValue(regs, srf, w[7], srf_sel)
        b == RC_getMuxValue(regs, srf, w[6], srf_sel)
        r == RC_runAlu(w[4], a.val, b.val, newRes)
    IN  IF nvalues # 5 THEN [regs |-> regs, newRes |-> newRes, err |-> "ValueError"]
        ELSE IF a.raised \/ b.raised
        THEN [regs |-> regs, newRes |-> newRes, err |-> "Mux value not recognized"]
        ELSE IF r.raised
        THEN [regs |-> regs, newRes |-> newRes, err |-> "ALU op not recognized"]
        ELSE [regs |-> RC_writeLocal(regs, w[1], w[2], r.newRes), newRes |-> r.newRes,
              err |-> "ok"]

-----------------------------------------------------------------------------
(* SpecSlots: LCU.run and RC.run calls on one array, in any order: the     *)
(* effect of one instruction of one slot on the registers of all slots     *)

\* (imm, rf_wsel, rf_we, alu_op, br_mode, muxb_sel, muxa_sel) of the LCU words
SlotLcuFields ==
    {<<0, 0, 0, 0, 0, 0, 0>>, <<1, 1, 1, 1, 0, 7, 0>>, <<2, 0, 0, 2, 0, 7, 0>>,
     <<1, 0, 0, 11, 0, 0, 1>>, <<1, 0, 1, 11, 0, 0, 1>>, <<1, 0, 1, 11, 0, 0, 7>>,
     <<0, 2, 1, 13, 0, 6, 7>>, <<0, 0, 0, 9, 0, 6, 4>>, <<0, 3, 1, 15, 0, 0, 0>>}

\* (rf_wsel, rf_we, muxf_sel, alu_op, op_mode, muxb_sel, muxa_sel) of the RC words
SlotRcFields ==
    {<<0, 0, 0, 0, 0, 0, 0>>, <<0, 1, 0, 1, 0, 11, 11>>, <<1, 1, 0, 1, 0, 4, 3>>,
     <<1, 0, 0, 2, 0, 11, 10>>, <<0, 1, 0, 15, 0, 10, 10>>, <<1, 1, 0, 1, 0, 14, 10>>}

\* the rows whose RC the model runs: the first and the last of a column
SlotRows == {0, CGRA_ROWS - 1}

InitSlots ==
    /\ npStrict = FALSE
    /\ wst = WordIdle
    /\ ast = AsmIdle
    /\ \E f \in SlotLcuFields :
          lcus = [c \in Cols |->
                    [LCU_init EXCEPT
                        !.regs = <<3, 1, -1, MIN_32b>>,
                        !.imem = LCU_IMEM_set_word(
                                     @, BinToInt(LCU_IMEM_WORD_init(f).word), 0)]]
    /\ rcRes = [c \in Cols |-> Rep(0, CGRA_ROWS)]
    /\ srfs = [c \in Cols |-> <<5, 2, 0, -1, 3, 1, 4, 7>>]
    /\ mxcuSrfSel = [c \in Cols |-> Rep(1, NPos)]
    /\ last = NoCall
    /\ nSteps = 0
    /\ SimIdle
    /\ ExtIdle

\* vwr2a.lcus[col].run(pc, vwr2a, col), while calls are left
SlotLCURun(col, pc) ==
    /\ nSteps + rcst.n < MaxSteps
    /\ LCURun(col, pc)

\* vwr2a.rcs[col][row].run(pc, vwr2a, col) on the IMEM word of fields f
RCRun(col, row, f, nvalues) ==
    /\ nSteps + rcst.n < MaxSteps
    /\ LET r == RC_run(rcst.regs[col][row], rcRes[col][row + 1], f, srfs[col],
                       mxcuSrfSel[col][1], nvalues)
       IN  /\ rcst' = [regs |-> [rcst.regs EXCEPT ![col][row] = r.regs],
                       n |-> rcst.n + 1,
                       last |-> [col |-> col, row |-> row, f |-> f, err |-> r.err]]
           /\ rcRes' = [rcRes EXCEPT ![col][row + 1] = r.newRes]
    /\ UNCHANGED <<npStrict, wst, ast, lcus, srfs, mxcuSrfSel, last, nSteps, simVars,
                   cst, pest, old, cg>>

NextSlots ==
    \/ \E col \in Cols, pc \in 0..(NPos - 1) : SlotLCURun(col, pc)
    \/ \E col \in Cols, row \in SlotRows, f \in SlotRcFields, nvalues \in {5, 6} :
          RCRun(col, row, f, nvalues)

SpecSlots == InitSlots /\ [][NextSlots]_vars

-----------------------------------------------------------------------------
(* SpecSim: SIMULATOR.kernel_config, kernel_load and run of one kernel *)

\* SIMULATOR.parseColUsageFromOneHot
parseColUsageFromOneHot(col_one_hot) ==
    IF col_one_hot = 1 THEN [ini_col |-> 0, end_col |-> 0]
    ELSE IF col_one_hot = 2 THEN [ini_col |-> 1, end_col |-> 1]
    ELSE [ini_col |-> 0, end_col |-> 1]

\* SIMULATOR.kernel_config: the one-hot column code and the stored descriptor
KernelConfig(column_usage, num_instructions_per_col, imem_add_start, srf_spm_addres) ==
    /\ sim.status = "idle"
    /\ kmem' = [n_instr_per_col |-> num_instructions_per_col,
                imem_start_addr |-> imem_add_start,
                col_one_hot |-> IF column_usage[1] /\ column_usage[2] THEN 3
                                ELSE IF column_usage[1] THEN 1 ELSE 2,
                srf_spm_bank |-> srf_spm_addres]
    /\ sim' = [sim EXCEPT !.status = "configured"]
    /\ UNCHANGED <<npStrict, extVars, wst, ast, lcuVars, gimem, lsuR7>>

\* the LCU words (as fields) the kernels of the model are made of:
\* NOP, EXIT, JUMP ZERO, 1 and BEQ ZERO, 0, 0
SimWordInputs ==
    {<<0, 0, 0, 0, 0, 0, 0>>, <<0, 0, 0, 14, 0, 0, 0>>,
     <<1, 0, 0, 13, 0, 6, 7>>, <<0, 0, 0, 9, 0, 6, 7>>}

\* BEQR 0: a conditional branch on the flags of the RCs (br_mode = 1)
SimRcBranchWord == <<0, 0, 0, 9, 1, 0, 0>>

\* SIMULATOR.kernel_load: the rows of the CSV file, one LCU hex word each,
\* go to consecutive lines of the general IMEM for each used column in turn
KernelLoad(rows) ==
    /\ sim.status = "configured"
    /\ LET n_instr_per_col == kmem.n_instr_per_col + 1
           cols == parseColUsageFromOneHot(kmem.col_one_hot)
           total == (cols.end_col - cols.ini_col + 1) * n_instr_per_col
       IN  /\ Len(rows) = total
           /\ gimem' = [a \in 1..NLines |->
                          IF a - 1 >= kmem.imem_start_addr
                             /\ a - 1 < kmem.imem_start_addr + total
                          THEN LCU_IMEM_WORD_hex(rows[a - kmem.imem_start_addr]).word
                          ELSE gimem[a]]
    /\ sim' = [sim EXCEPT !.status = "loaded"]
    /\ UNCHANGED <<npStrict, extVars, wst, ast, lcuVars, kmem, lsuR7>>

\* the LCU IMEM of the columns after the copy loop of SIMULATOR.run: addr
\* starts at imem_start_addr and keeps counting from one column to the next
RECURSIVE CopyImemMut(_, _, _, _, _)
CopyImemMut(l, col, end_col, addr, n) ==
    IF col > end_col THEN l
    ELSE LET Fill[j \in 0..n] ==
                 IF j = 0 THEN l[col].imem
                 ELSE LCU_IMEM_set_word(Fill[j - 1], BinToInt(gimem[addr + j]), j - 1)
         IN  CopyImemMut([l EXCEPT ![col].imem = Fill[n]], col + 1, end_col, addr, n)

RECURSIVE CopyImem(_, _, _, _, _)
CopyImem(l, col, end_col, addr, n) ==
    IF col > end_col THEN l
    ELSE LET Fill[j \in 0..n] ==
                 IF j = 0 THEN l[col].imem
                 ELSE LCU_IMEM_set_word(Fill[j - 1], BinToInt(gimem[addr + j]), j - 1)
         IN  CopyImem([l EXCEPT ![col].imem = Fill[n]], col + 1, end_col, addr + n, n)

\* SIMULATOR.run up to the first test of the loop
RunStart ==
    /\ sim.status \in {"configured", "loaded"}
    /\ LET n_instr_per_col == kmem.n_instr_per_col + 1
           cols == parseColUsageFromOneHot(kmem.col_one_hot)
           flags == [i \in 1..(cols.end_col - cols.ini_col + 1) |-> -1]
       IN  /\ lsuR7' = [c \in Cols |->
                          IF c >= cols.ini_col /\ c <= cols.end_col
                          THEN kmem.srf_spm_bank ELSE lsuR7[c]]
           /\ lcus' = CopyImem(lcus, cols.ini_col, cols.end_col,
                               kmem.imem_start_addr, n_instr_per_col)
           /\ sim' = [status |-> "running", pc |-> 0,
                      n_instr_per_col |-> n_instr_per_col,
                      ini_col |-> cols.ini_col, end_col |-> cols.end_col,
                      branch_flags |-> flags, exit_flags |-> flags,
                      exit |-> FALSE, err |-> "none", cycles |-> 0]
    /\ UNCHANGED <<npStrict, extVars, wst, ast, srfs, rcRes, mxcuSrfSel, last, nSteps, kmem, gimem>>

\* the parameters RC.run and LCU.run declare after self, and the arguments
\* the loop of SIMULATOR.run passes to them
RC_run_params == <<"pc", "vwr2a", "col">>
LCU_run_params == <<"pc", "vwr2a", "col">>
SimRunArgs == <<"pc">>

\* a call with fewer positional arguments than parameters raises TypeError
CallRaises(args, params) == Len(args) # Len(params)

\* one turn of the while loop of SIMULATOR.run.  The slots of column ini_col
\* run first: LSU and MXCU, then RC 0, whose call raises; were it to pass,
\* the LCU would run and the unpacking of its return value None would raise
RunLoop ==
    /\ sim.status = "running"
    /\ IF sim.pc < sim.n_instr_per_col /\ ~sim.exit
       THEN LET col == sim.ini_col
                r == LCU_run(lcus[col], srfs[col], rcRes[col],
                             mxcuSrfSel[col][sim.pc + 1], sim.pc, col)
                began == [sim EXCEPT !.status = "error", !.cycles = @ + 1]
            IN  IF CallRaises(SimRunArgs, RC_run_params)
                   \/ CallRaises(SimRunArgs, LCU_run_params)
                THEN /\ sim' = [began EXCEPT !.err = "TypeError"]
                     /\ UNCHANGED <<lcus, srfs, last, nSteps>>
                ELSE /\ lcus' = [lcus EXCEPT ![col] = r.lcu]
                     /\ srfs' = [srfs EXCEPT ![col] = r.srf]
                     /\ last' = r.last
                     /\ nSteps' = nSteps + 1
                     /\ sim' = [began EXCEPT
                                  !.err = IF r.last.err = "ok" THEN "TypeError"
                                          ELSE r.last.err]
       ELSE /\ sim' = [sim EXCEPT !.status = "done"]
            /\ UNCHANGED <<lcus, srfs, last, nSteps>>
    /\ UNCHANGED <<npStrict, extVars, wst, ast, rcRes, mxcuSrfSel, kmem, gimem, lsuR7>>

\* the hex words of the rows of a kernel file
\* (any of the words of SimWordInputs, or BEQR 0 followed by NOPs)
SimRows(n) ==
    [1..n -> {get_word_in_hex(LCU_IMEM_WORD_init(f)) : f \in SimWordInputs}]
    \cup {[i \in 1..n |-> get_word_in_hex(LCU_IMEM_WORD_init(
                               IF i = 1 THEN SimRcBranchWord ELSE <<0, 0, 0, 0, 0, 0, 0>>))]}

InitSim ==
    /\ npStrict = FALSE
    /\ wst = WordIdle
    /\ ast = AsmIdle
    /\ LcuIdle
    /\ SimIdle
    /\ ExtIdle

NextSim ==
    \/ \E cu \in [1..2 -> BOOLEAN], n \in 0..(NPos - 1), a \in {0, 1} :
          KernelConfig(cu, n, a, 3)
    \/ \E k \in 1..(2 * NPos) : \E rows \in SimRows(k) : KernelLoad(rows)
    \/ RunStart
    \/ RunLoop

SpecSim == InitSim /\ [][NextSim]_vars

-----------------------------------------------------------------------------
\* the loop of SIMULATOR.run executes a cycle in this step
CycleStep == sim.status = "running" /\ sim'.cycles = sim.cycles + 1

\* the fields of the LCU word of column c at the pc of the cycle
LcuWordAt(c) == decode_word(LCU_set_word(lcus[c].imem[sim.pc + 1]))

(* C1: at the end of every executed cycle of SIMULATOR.run, if no active   *)
(* column's LCU has marked a branch the run goes on at pc + 1, if exactly  *)
(* one has the run goes on at its branch target, and if more than one has  *)
(* the run stops with the error "Two branches taken in the same cycle".    *)
C1_Arbitration ==
    [][CycleStep
       => LET taken == {c \in sim.ini_col..sim.end_col : lcus'[c].branch = 1}
          IN  /\ taken = {} => sim'.status = "running" /\ sim'.pc = sim.pc + 1
              /\ Cardinality(taken) = 1 =>
                    /\ sim'.status = "running"
                    /\ \E c \in taken : sim'.pc = lcus'[c].branch_pc
              /\ Cardinality(taken) > 1 =>
                    /\ sim'.status = "error"
                    /\ sim'.err = "Two branches taken in the same cycle"]_vars

(* C2: a cycle in which the LCU word of some active column is EXIT is      *)
(* executed to its end without error and sets the exit condition, so that  *)
(* the loop runs no later cycle.                                           *)
C2_ExitTerminates ==
    [][(CycleStep /\ \E c \in sim.ini_col..sim.end_col : LcuWordAt(c)[4] = 14)
       => /\ sim'.status = "running"
          /\ sim'.exit]_vars

(* C6: a cycle of a one-column kernel whose LCU word is a JUMP of an       *)
(* immediate and ZERO or ONE, or a BEQ of the immediate 0 and ZERO (always *)
(* taken), is followed by the pc of the branch target: muxa + muxb for     *)
(* JUMP, the imm field for BEQ.                                            *)
C6_BranchTarget ==
    [][(/\ CycleStep
        /\ sim.ini_col = sim.end_col
        /\ LET f == LcuWordAt(sim.ini_col)
           IN  /\ f[5] = 0 /\ f[7] = 7 /\ f[6] \in {6, 7}
               /\ f[4] = 13 \/ (f[4] = 9 /\ f[1] = 0 /\ f[6] = 6))
       => LET f == LcuWordAt(sim.ini_col)
          IN  /\ sim'.status = "running"
              /\ sim'.pc = IF f[4] = 13 THEN f[1] + (IF f[6] = 7 THEN 1 ELSE 0)
                           ELSE f[1]]_vars

-----------------------------------------------------------------------------
\* the LCU has just run the word (last.f) of a column whose branch flag was clear
ClearLcuStep == nSteps' = nSteps + 1 /\ lcus[last'.col].branch = 0

\* the condition the branch opcode alu_op tests on a signed value d
BranchCond(alu_op, d) ==
    \/ alu_op = 9 /\ d = 0
    \/ alu_op = 10 /\ d # 0
    \/ alu_op = 12 /\ d < 0
    \/ alu_op = 11 /\ d >= 0

C4_BranchMode1 ==
    [][(/\ ClearLcuStep
        /\ last'.err = "ok"
        /\ last'.f[5] = 1
        /\ last'.f[4] \in 9..12)
       => (lcus'[last'.col].branch = 1
             <=> \E row \in Rows : BranchCond(last'.f[4], rcRes[last'.col][row + 1]))]_vars

(* C5: an LCU BGEPD with br_mode = 0 whose A operand is a local register   *)
(* or the SRF register, holding v, completes without error, is taken iff   *)
(* v - muxb >= 0 for the value v read before the decrement, and leaves     *)
(* v - 1 in the source register.                                           *)
C5_BgepdPostDecrement ==
    [][(/\ ClearLcuStep
        /\ last'.f[4] = 11
        /\ last'.f[5] = 0
        /\ last'.f[7] <= 4)
       => LET f == last'.f
              c == last'.col
              sel == mxcuSrfSel[c][last'.pc + 1]
              v == IF f[7] <= 3 THEN lcus[c].regs[f[7] + 1] ELSE srfs[c][sel + 1]
              after == IF f[7] <= 3 THEN lcus'[c].regs[f[7] + 1] ELSE srfs'[c][sel + 1]
              mb == LCU_getMuxValue(lcus[c].regs, srfs[c], f[6], sel, f[1], FALSE, FALSE).val
          IN  /\ last'.err = "ok"
              /\ after = v - 1
              /\ lcus'[c].branch = 1 <=> v - mb >= 0]_vars

-----------------------------------------------------------------------------
(* C7: decode(encode(w)) == w for every LCU and RC word built from         *)
(* in-range fields, through the hex constructor and through set_word: the  *)
(* decoded field values are exactly the fields the word was built from.    *)
C7_DecodeEncode ==
    wst.phase = "decoded" => wst.out = wst.args

\* an LCU word and an RC word with non-zero fields have been packed and decoded
C7_Witness ==
    /\ wst.phase = "decoded"
    /\ wst.via = "hex"
    /\ wst.kind = "LCU"
    /\ wst.args = <<42, 3, 1, 9, 1, 4, 5>>
    /\ wst.out[1] = 42

(* C8: the packed words follow the MSB-first layouts: the integer value    *)
(* of an LCU word is muxa_sel*2^17 + muxb_sel*2^14 + br_mode*2^13 +        *)
(* alu_op*2^9 + rf_we*2^8 + rf_wsel*2^6 + imm on 20 bits, that of an RC    *)
(* word muxa_sel*2^14 + muxb_sel*2^10 + op_mode*2^9 + alu_op*2^5 +         *)
(* muxf_sel*2^2 + rf_we*2 + rf_wsel on 18 bits.                            *)
C8_Layout ==
    wst.phase = "packed" =>
        LET f == wst.args
        IN  IF wst.kind = "LCU"
            THEN /\ Len(wst.word) = 20
                 /\ BinToInt(wst.word) =
                        f[7] * 131072 + f[6] * 16384 + f[5] * 8192 + f[4] * 512
                        + f[3] * 256 + f[2] * 64 + f[1]
                 /\ HexToInt(wst.hex) = BinToInt(wst.word)
            ELSE /\ Len(wst.word) = 18
                 /\ BinToInt(wst.word) =
                        f[7] * 16384 + f[6] * 1024 + f[5] * 512 + f[4] * 32
                        + f[3] * 4 + f[2] * 2 + f[1]
                 /\ HexToInt(wst.hex) = BinToInt(wst.word)

\* an RC word with every field non-zero has been packed
C8_Witness ==
    /\ wst.phase = "packed"
    /\ wst.kind = "RC"
    /\ wst.args = <<1, 1, 3, 10, 1, 5, 12>>

(* C9: every word the assembler emits fits its slot width: a word          *)
(* LCU.asmToHex returns is exactly 20 bits, and an immediate that does not *)
(* fit the 6-bit imm field (neither as an unsigned nor as a two's          *)
(* complement value) is rejected with an error instead of producing a      *)
(* word.                                                                   *)
C9_WordFitsWidth ==
    (ast.phase = "assembled" /\ ast.res.status = "ok") =>
        /\ Len(ast.res.word.word) = LCU_IMEM_WIDTH
        /\ \A i \in 1..Len(ast.s.args) :
              ast.s.args[i].k = "INT" => ast.s.args[i].n \in -32..63

(* C10: for every LCU mnemonic s that asmToHex accepts, disassembling the  *)
(* assembled word (hexToAsm or get_word_in_asm, with the SRF index s       *)
(* references) returns s in canonical form: the same operation and the     *)
(* same operands in the same order.                                        *)
C10_DisasmOfAsm ==
    ast.phase = "disassembled" => ast.out = Mn(ast.s.op, ast.s.args)

(* C11: for every RC mnemonic s that RC.asmToHex accepts, destinations     *)
(* SRF(n) and VWR_A/B/C included, disassembling the assembled word         *)
(* (RC.hexToAsm or get_word_in_asm, with the srf_sel and selected_vwr of   *)
(* the cycle) returns s in canonical form: the same operation, the same    *)
(* destination and the same operands in the same order.                    *)
C11_RcDisasmOfAsm ==
    ast.phase = "rc_disassembled" => ast.out = Mn(ast.s.op, ast.s.args)

\* the SRF indices a mnemonic names
SrfNamed(s) == {s.args[i].n : i \in {j \in 1..Len(s.args) : s.args[j].k = "SRF"}}

\* the slots of the compiled line: LCU, LSU, RC0..RC3
CstSlots == <<cst.row.lcu, cst.row.lsu>> \o cst.row.rcs

(* C12: if two slots among LCU, LSU, RC0..RC3 of a cycle both reference an *)
(* SRF register and the indices differ (LCU reads SRF(3), RC1 writes       *)
(* SRF(5)), the assembly of the cycle fails and no MXCU word is produced;  *)
(* the same holds inside one instruction: a single mnemonic naming two     *)
(* different SRF indices is rejected.                                      *)
C12_SrfConflictFails ==
    (/\ cst.phase = "compiled"
     /\ Cardinality(UNION {SrfNamed(CstSlots[i]) : i \in 1..Len(CstSlots)}) > 1)
        => (cst.status # "ok" /\ cst.mxcu = <<>>)

\* the VWR letter RC r of the compiled line writes, -1 when it writes none
CstVwrLetter(r) ==
    LET m == cst.row.rcs[r]
    IN  IF Len(m.args) > 0 /\ m.args[1].k = "VWR" THEN m.args[1].n ELSE -1

(* C13: if two RCs of a cycle name VWR destinations of different letters   *)
(* the assembly of the cycle fails; otherwise the MXCU word has vwr_sel =  *)
(* the agreed letter (A = 0, B = 1, C = 2; 0 when no RC writes a VWR) and  *)
(* vwr_row_we[r] = 1 exactly for the rows r whose RC writes a VWR.         *)
C13_VwrReconcile ==
    cst.phase = "compiled" =>
        LET letters == {CstVwrLetter(r) : r \in 1..CGRA_ROWS} \ {-1}
        IN  /\ Cardinality(letters) > 1 => (cst.status # "ok" /\ cst.mxcu = <<>>)
            /\ cst.status = "ok" =>
                  /\ \A n \in letters : cst.mxcu.vwr_sel = n
                  /\ letters = {} => cst.mxcu.vwr_sel = 0
                  /\ \A r \in 1..CGRA_ROWS :
                        cst.mxcu.vwr_row_we[r] = IF CstVwrLetter(r) # -1 THEN 1 ELSE 0

\* a line whose RC0 and RC2 write VWR_B and whose other RCs write no VWR
\* has been assembled
C13_Witness ==
    /\ cst.phase = "compiled"
    /\ cst.status = "ok"
    /\ <<CstVwrLetter(1), CstVwrLetter(2), CstVwrLetter(3), CstVwrLetter(4)>> = <<1, -1, 1, -1>>
    /\ cst.mxcu.vwr_sel = 1
    /\ cst.mxcu.vwr_row_we = <<1, 0, 1, 0>>

\* the mnemonic names a register whose index is out of range: SRF(n) with
\* n outside 0..7, or Rn with n above the last local register
IndexOutOfRange(s, nDreg) ==
    \E i \in 1..Len(s.args) :
        \/ s.args[i].k = "SRF" /\ s.args[i].n \notin 0..(SRF_N_REGS - 1)
        \/ s.args[i].k = "R" /\ s.args[i].n \notin 0..(nDreg - 1)

(* C14: a register index out of range is rejected with an error and no    *)
(* word is produced, in every operand position: for the LCU SRF(n) with n  *)
(* outside 0..7 and Rn with n outside 0..3; for an RC SRF(n) with n        *)
(* outside 0..7 and Rn with n outside 0..1.                                *)
C14_IndexRangeChecked ==
    /\ (ast.phase = "assembled" /\ IndexOutOfRange(ast.s, LCU_NUM_DREG))
          => ast.res.status # "ok"
    /\ (ast.phase = "rc_assembled" /\ IndexOutOfRange(ast.s, RC_NUM_DREG))
          => ast.res.status # "ok"

(* C20: for every LCU arithmetic or arithmetic-immediate mnemonic that is  *)
(* accepted, the assembled word has rf_we = 1 and rf_wsel = k exactly when *)
(* the destination is the local register Rk, and rf_we = 0 exactly when    *)
(* the destination is SRF(n), n being reported as the SRF write index;     *)
(* likewise the word of an accepted RC mnemonic with a destination has     *)
(* rf_we = 0 exactly when the destination is SRF(n) or a VWR, and rf_we =  *)
(* 1 with rf_wsel = k when it is Rk.                                       *)
C20_WriteEnable ==
    /\ (/\ ast.phase = "assembled"
        /\ ast.res.status = "ok"
        /\ ast.s.op \in lcu_arith_ops \cup lcu_arith_i_ops)
          => LET f == decode_word(ast.res.word)
                 d == ast.s.args[1]
             IN  /\ d.k \in {"R", "SRF"}
                 /\ d.k = "R" <=> (f[3] = 1 /\ f[2] = d.n /\ ast.res.srf_str = -1)
                 /\ d.k = "SRF" <=> (f[3] = 0 /\ ast.res.srf_str = d.n)
    /\ (/\ ast.phase = "rc_assembled"
        /\ ast.res.status = "ok"
        /\ ast.s.op \in rc_arith_ops \cup rc_flag_ops)
          => LET f == decode_word(ast.res.word)
                 d == ast.s.args[1]
             IN  /\ d.k \in {"R", "SRF", "VWR"}
                 /\ d.k = "R" <=> (f[2] = 1 /\ f[1] = d.n)
                 /\ d.k \in {"SRF", "VWR"} <=> f[2] = 0
                 /\ d.k = "SRF" => ast.res.srf_str = d.n
                 /\ d.k = "VWR" => ast.res.vwr_str = d.n

\* an RC mnemonic that writes VWR_C through a flag operation has been
\* assembled: its word has rf_we = 0
C20_Witness ==
    /\ ast.phase = "rc_assembled"
    /\ ast.res.status = "ok"
    /\ ast.s = Mn("SFGA", <<Tok("VWR", 2), Tok("RC", 3)>>)
    /\ decode_word(ast.res.word)[2] = 0
    /\ ast.res.vwr_str = 2

-----------------------------------------------------------------------------
\* the four bytes of the low 32 bits of v, least significant first
Bytes32(v) ==
    <<v % 256, (v \div 256) % 256, (v \div 65536) % 256, (v \div 16777216) % 256>>

\* the bytes of the low 32 bits of x + y and x - y, by addition with carry
\* of the bytes of x and of y or of the complement of y
SumBytes(x, y, carry) ==
    LET c1 == x[1] + y[1] + carry
        c2 == x[2] + y[2] + c1 \div 256
        c3 == x[3] + y[3] + c2 \div 256
        c4 == x[4] + y[4] + c3 \div 256
    IN  <<c1 % 256, c2 % 256, c3 % 256, c4 % 256>>

\* the bytes of the low 32 bits of x * y, by long multiplication
ProdBytes(x, y) ==
    LET c1 == x[1] * y[1]
        c2 == x[1] * y[2] + x[2] * y[1] + c1 \div 256
        c3 == x[1] * y[3] + x[2] * y[2] + x[3] * y[1] + c2 \div 256
        c4 == x[1] * y[4] + x[2] * y[3] + x[3] * y[2] + x[4] * y[1] + c3 \div 256
    IN  <<c1 % 256, c2 % 256, c3 % 256, c4 % 256>>

(* C17: for all 32-bit signed a and b, SADD(a,b), SSUB(a,b) and SMUL(a,b)  *)
(* return the low 32 bits of a+b, a-b and a*b read as a two's complement   *)
(* value (wrap on overflow): a result in -2^31 .. 2^31 - 1 whose four      *)
(* bytes are those of the low 32 bits of the exact result.                 *)
C17_Wrap32 ==
    pest.phase = "returned" =>
        LET x == Bytes32(pest.val1)
            y == Bytes32(pest.val2)
        IN  /\ pest.ret >= MIN_32b /\ pest.ret <= MAX_32b
            /\ pest.op = "SADD" => Bytes32(pest.ret) = SumBytes(x, y, 0)
            /\ pest.op = "SSUB" =>
                  Bytes32(pest.ret) = SumBytes(x, [k \in 1..4 |-> 255 - y[k]], 1)
            /\ pest.op = "SMUL" => Bytes32(pest.ret) = ProdBytes(x, y)

\* a sum that overflows has been computed: MAX_32b + 1 wraps to MIN_32b
C17_Witness ==
    /\ pest.phase = "returned"
    /\ pest.op = "SADD"
    /\ pest.val1 = MAX_32b /\ pest.val2 = 1
    /\ pest.ret = MIN_32b

(* C16: a kernel run that is given a step limit L and whose kernel never   *)
(* reaches EXIT terminates: when the number of executed steps reaches L    *)
(* the run stops, and its outcome is a "limit reached" status, which a     *)
(* termination by EXIT does not have.                                      *)
C16_LimitReached ==
    old.phase = "ended" =>
        /\ old.status \in {"exit", "limit reached"}
        /\ old.status = "limit reached" => old.steps = old.limit

-----------------------------------------------------------------------------
\* the state of column c after a cycle whose LSU, MXCU and RC words are NOP
\* (the kernels of the model), as the start-of-cycle state determines it
AfterCycle(c) ==
    LCU_run(lcus[c], srfs[c], rcRes[c], mxcuSrfSel[c][sim.pc + 1], sim.pc, c)

(* C15: within one cycle every read of a local register, of the SRF, of a  *)
(* VWR or of a neighbour RC's output by the LSU, the MXCU and the RCs      *)
(* returns the value held at the start of the cycle, so the cycle is       *)
(* executed by all slots and leaves the state that the start-of-cycle      *)
(* state determines, whatever the order of the RCs of a column.            *)
C15_StartOfCycleReads ==
    [][CycleStep
       => /\ sim'.err # "TypeError"
          /\ rcRes' = rcRes
          /\ \A c \in sim.ini_col..sim.end_col :
                lcus'[c] = AfterCycle(c).lcu /\ srfs'[c] = AfterCycle(c).srf]_vars

(* C19: in br_mode = 1 the branch decision of the LCU in cycle t is        *)
(* computed from the RC ALU results of the same cycle t: in a cycle whose  *)
(* LCU word is a conditional branch with br_mode = 1 the RCs of the column *)
(* execute first and the LCU then evaluates on their results.              *)
C19_SameCycleFlags ==
    [][(/\ CycleStep
        /\ LcuWordAt(sim.ini_col)[5] = 1
        /\ LcuWordAt(sim.ini_col)[4] \in 9..12)
       => LET c == sim.ini_col
              fl == RcFlags(rcRes'[c])
          IN  /\ nSteps' = nSteps + 1
              /\ last'.col = c /\ last'.pc = sim.pc
              /\ lcus'[c].branch = 1
                    <=> BranchTaken(LcuWordAt(c)[4], fl.equal, fl.greater)]_vars

-----------------------------------------------------------------------------
\* SIMULATOR.run has copied the instructions and has not left its loop
RunCopied == sim.status = "running"

(* C18, as the code has it: at the start of a run, for every active column *)
(* c and every position p < n_instr, the LCU IMEM of column c holds at p   *)
(* the word of line base + (c - ini_col) * n_instr + p of the general      *)
(* IMEM: the lines of the active columns follow one another, so that with  *)
(* both columns active column 1 holds the lines from base + n_instr on.    *)
C18_ImemCopy ==
    RunCopied =>
        \A c \in sim.ini_col..sim.end_col : \A p \in 0..(sim.n_instr_per_col - 1) :
            lcus[c].imem[p + 1] =
                gimem[kmem.imem_start_addr + (c - sim.ini_col) * sim.n_instr_per_col + p + 1]

\* both columns are active, the kernel has two lines per column and the
\* lines of column 1 differ from those of column 0
C18_Witness ==
    /\ RunCopied
    /\ sim.ini_col = 0 /\ sim.end_col = 1
    /\ sim.n_instr_per_col = 2
    /\ lcus[1].imem[1] = gimem[kmem.imem_start_addr + 3]
    /\ lcus[1].imem[1] # gimem[kmem.imem_start_addr + 1]
    /\ lcus[0].imem[2] = gimem[kmem.imem_start_addr + 2]

(* C18 as stated: at the start of a run, for every active column c and     *)
(* every position p < n_instr, the per-slot IMEMs of column c hold at p    *)
(* the word of line base + p of the general IMEM, for both columns when    *)
(* both are active.                                                        *)
C18_ImemCopySameLines ==
    RunCopied =>
        \A c \in sim.ini_col..sim.end_col : \A p \in 0..(sim.n_instr_per_col - 1) :
            lcus[c].imem[p + 1] = gimem[kmem.imem_start_addr + p + 1]

-----------------------------------------------------------------------------
(* C21: for every cell (r, c) of the N_ROW x N_COL grid and every          *)
(* direction, get_neighbour_address returns a coordinate inside the grid:  *)
(* RCL = (r, (c-1) mod C), RCR = (r, (c+1) mod C), RCT = ((r-1) mod R, c), *)
(* RCB = ((r+1) mod R, c), so that the links form a torus.                 *)
C21_Torus ==
    cg.last.op = "get_neighbour_address" =>
        LET r == cg.last.args[1]
            c == cg.last.args[2]
            dir == cg.last.args[3]
        IN  /\ cg.last.err = "none"
            /\ cg.last.ret =
                  CASE dir = "RCL" -> <<r, (c - 1) % N_COL>>
                    [] dir = "RCR" -> <<r, (c + 1) % N_COL>>
                    [] dir = "RCT" -> <<(r - 1) % N_ROW, c>>
                    [] dir = "RCB" -> <<(r + 1) % N_ROW, c>>

\* a call of the CGRA of cgra_old.py is made in this step
CgStep(op) == cg'.n = cg.n + 1 /\ cg'.last.op = op

(* C22: an LWD of column c, while input words are left, loads input word   *)
(* load_idx[c] of column c and advances only the load cursor of column c   *)
(* by one; an SWD of column c writes the value to output word store_idx[c] *)
(* of column c and advances only the store cursor of column c by one.      *)
C22_DirectCursors ==
    [][/\ (CgStep("LWD") /\ cg.load_idx[cg'.last.args[1]] < Len(cg.inputs))
          => LET c == cg'.last.args[1]
             IN  /\ cg'.last.err = "none"
                 /\ cg'.regs[c] = cg.inputs[cg.load_idx[c] + 1][c + 1]
                 /\ cg'.load_idx = [cg.load_idx EXCEPT ![c] = @ + 1]
                 /\ cg'.store_idx = cg.store_idx
       /\ CgStep("SWD")
          => LET c == cg'.last.args[1]
             IN  /\ cg'.last.err = "none"
                 /\ Len(cg'.outputs) > cg.store_idx[c]
                 /\ cg'.outputs[cg.store_idx[c] + 1][c + 1] = cg.regs[c]
                 /\ cg'.store_idx = [cg.store_idx EXCEPT ![c] = @ + 1]
                 /\ cg'.load_idx = cg.load_idx]_vars

\* the number of rows of the memory list that hold the address add
MemEntries(memory, add) == Cardinality({i \in 1..Len(memory) : memory[i][1] = add})

(* C23: from any memory list, the empty one included, after                *)
(* store_indirect(a, v) a load_indirect(a) returns v, the value loaded for *)
(* every other address is unchanged, and an address that had at most one   *)
(* row has exactly one.                                                    *)
C23_IndirectKeyed ==
    [][CgStep("store_indirect")
       => LET a == cg'.last.args[1]
              v == cg'.last.args[2]
          IN  /\ load_indirect(cg'.memory, a) = v
              /\ \A b \in MemAddrs \ {a} :
                    load_indirect(cg'.memory, b) = load_indirect(cg.memory, b)
              /\ MemEntries(cg.memory, a) <= 1 => MemEntries(cg'.memory, a) = 1]_vars

-----------------------------------------------------------------------------
(* C24: every cycle SIMULATOR.run executes has 0 <= pc < n_instr_per_col   *)
(* and pc < LCU_NUM_CREG, is executed without error, and leaves a pc that  *)
(* is not negative: a target outside the kernel ends the run instead of    *)
(* being used as an IMEM position.                                         *)
C24_PcInRange ==
    [][CycleStep
       => /\ 0 <= sim.pc /\ sim.pc < sim.n_instr_per_col /\ sim.pc < LCU_NUM_CREG
          /\ sim'.err = "none"
          /\ sim'.status = "running" => sim'.pc >= 0]_vars

(* C25: for col_one_hot 1, 2 and 3 a cycle of SIMULATOR.run executes the   *)
(* LCU of exactly the active columns (1: column 0, 2: column 1, 3: both)   *)
(* and records the branch and the exit result of each of them (-1 when     *)
(* there is none) without failing.                                         *)
C25_ActiveColumns ==
    [][(CycleStep /\ kmem.col_one_hot \in {1, 2, 3})
       => LET active == {c \in Cols : \/ kmem.col_one_hot = 3
                                      \/ kmem.col_one_hot = c + 1}
          IN  /\ sim'.status = "running"
              /\ active = sim.ini_col..sim.end_col
              /\ \A c \in Cols \ active : lcus'[c] = lcus[c]
              /\ \A c \in active :
                    LET l == AfterCycle(c).lcu
                        k == c - sim.ini_col + 1
                    IN  /\ lcus'[c] = l
                        /\ sim'.branch_flags[k] = IF l.branch = 1 THEN l.branch_pc ELSE -1
                        /\ sim'.exit_flags[k] = IF l.exit = 1 THEN 1 ELSE -1]_vars

\* LCU.run is called in this step (on column last'.col at position last'.pc)
LcuStep == nSteps' = nSteps + 1

(* C26: the branch and exit indications of an LCU after a cycle are those  *)
(* of the instruction of that cycle: after a cycle whose LCU word is NOP   *)
(* or an arithmetic operation the LCU indicates no branch and no exit,     *)
(* whatever it executed before.                                            *)
C26_IndicationsPerCycle ==
    [][(LcuStep /\ last'.err = "ok" /\ last'.f[4] \in 0..8)
       => /\ lcus'[last'.col].branch = 0
          /\ lcus'[last'.col].exit = 0]_vars

-----------------------------------------------------------------------------
\* the source operands of an LCU mnemonic: the operand positions that are
\* read through mux A or mux B
LcuSources(s) ==
    IF s.op \in lcu_arith_ops THEN {2, 3}
    ELSE IF s.op \in lcu_arith_i_ops THEN {2}
    ELSE IF s.op \in lcu_branch_ops \/ s.op = "JUMP" THEN {1, 2}
    ELSE {}

\* a conditional branch with well-formed operands, an immediate of 6 bits,
\* and exactly one source operand that names an SRF register
BranchOneSrf(s) ==
    /\ s.op \in lcu_branch_ops
    /\ Len(s.args) = 3
    /\ \A i \in {1, 2} :
          \/ s.args[i].k = "R" /\ s.args[i].n \in 0..3
          \/ s.args[i].k = "SRF" /\ s.args[i].n \in 0..(SRF_N_REGS - 1)
          \/ s.args[i].k \in {"ZERO", "LAST"}
    /\ s.args[3].k = "INT" /\ s.args[3].n \in 0..63
    /\ Cardinality({i \in {1, 2} : s.args[i].k = "SRF"}) = 1

(* C27: for every LCU mnemonic asmToHex accepts that has SRF(n) as a       *)
(* source operand in either operand position, the returned srf_read_index  *)
(* is n; and a conditional branch that reads one SRF register is accepted. *)
C27_SrfReadIndex ==
    ast.phase = "assembled" =>
        /\ ast.res.status = "ok" =>
              \A i \in LcuSources(ast.s) :
                  (i <= Len(ast.s.args) /\ ast.s.args[i].k = "SRF")
                      => ast.res.srf_read = ast.s.args[i].n
        /\ BranchOneSrf(ast.s) => ast.res.status = "ok"

\* the operation names LCU.asmToHex accepts
LcuOpNames ==
    lcu_arith_ops \cup lcu_arith_i_ops \cup lcu_rcmode_ops \cup lcu_branch_ops
        \cup {"NOP", "EXIT", "JUMP"}

(* C28: when get_word_in_asm renders the LCU word of a cycle as a mnemonic *)
(* of the LCU (an alu_op of 15 is rendered as NOP), LCU.run of that word   *)
(* does not fail with "ALU op not recognized".                             *)
C28_DisasmExecAgree ==
    [][LcuStep
       => LET o == LCU_IMEM_WORD_hex(
                       LCU_IMEM_get_word_in_hex(lcus[last'.col].imem, last'.pc))
              asm == LCU_get_word_in_asm(o, mxcuSrfSel[last'.col][last'.pc + 1])
          IN  asm.op \in LcuOpNames => last'.err # "ALU op not recognized"]_vars

\* the opcode the operation names of the LCU stand for (the RC-mode branch
\* BGER for that of BGEPD)
LcuOpcode(op) ==
    IF op \in DOMAIN LCU_ALU_OPS THEN LCU_ALU_OPS[op]
    ELSE IF op = "BGER" THEN LCU_ALU_OPS["BGEPD"]
    ELSE LCU_ALU_OPS[StripLast[op]]

(* C29: every operation name of the accepted-operation sets of the LCU and *)
(* of the RC assembles to a word that carries its opcode or is rejected    *)
(* with a ValueError, never with an unhandled lookup error; an RC-mode     *)
(* branch of the LCU assembles to br_mode = 1 and the opcode of its base   *)
(* branch.                                                                 *)
C29_ListedOpsAssemble ==
    /\ (ast.phase = "assembled" /\ ast.s.op \in LcuOpNames) =>
          /\ ast.res.status # "KeyError"
          /\ ast.res.status = "ok" =>
                /\ decode_word(ast.res.word)[4] = LcuOpcode(ast.s.op)
                /\ decode_word(ast.res.word)[5] = IF ast.s.op \in lcu_rcmode_ops THEN 1 ELSE 0
          /\ (/\ ast.s.op \in lcu_rcmode_ops
              /\ Len(ast.s.args) = 1
              /\ ast.s.args[1].k = "INT" /\ ast.s.args[1].n \in 0..63)
                => ast.res.status = "ok"
    /\ (ast.phase = "rc_assembled" /\ ast.s.op \in rc_arith_ops \cup rc_flag_ops) =>
          /\ ast.res.status # "KeyError"
          /\ ast.res.status = "ok" =>
                decode_word(ast.res.word)[4] =
                    IF ast.s.op = "SFGA" THEN RC_ALU_OPS["INB_SF_INA"]
                    ELSE IF ast.s.op = "ZFGA" THEN RC_ALU_OPS["INB_ZF_INA"]
                    ELSE IF ast.s.op = "MUL.FP" THEN RC_ALU_OPS["FXP_MUL"]
                    ELSE RC_ALU_OPS[ast.s.op]


\* RC.run was called in this step
RcStep == rcst'.n = rcst.n + 1

\* the local registers other than rf_wsel keep their values
OnlyWsel(before, after, rf_wsel) ==
    \A i \in DOMAIN before : i # rf_wsel + 1 => after[i] = before[i]

\* the registers of LCU col after one LCU.run of the word f.  anyWrite:
\* the rf_we = 1 case speaks of every opcode, BGEPD included
LcuFrame(col, f, anyWrite) ==
    /\ (f[3] = 0 /\ f[4] # 11) => lcus'[col].regs = lcus[col].regs
    /\ (f[3] = 1 /\ (anyWrite \/ f[4] # 11)) =>
          OnlyWsel(lcus[col].regs, lcus'[col].regs, f[2])

\* the registers of RC (col, row) after one RC.run of the word f
RcFrame(col, row, f) ==
    /\ f[2] = 0 => rcst'.regs[col][row] = rcst.regs[col][row]
    /\ f[2] = 1 => OnlyWsel(rcst.regs[col][row], rcst'.regs[col][row], f[1])

\* no slot but LCU col, or RC (col, row), has its local registers changed
OtherSlotsKept(lcuCol, rcCol, rcRow) ==
    /\ \A c \in Cols : c # lcuCol => lcus'[c].regs = lcus[c].regs
    /\ \A c \in Cols, r \in Rows :
          (c # rcCol \/ r # rcRow) => rcst'.regs[c][r] = rcst.regs[c][r]

SlotFrame(anyWrite) ==
    /\ LcuStep => /\ LcuFrame(last'.col, last'.f, anyWrite)
                  /\ OtherSlotsKept(last'.col, -1, -1)
    /\ RcStep => /\ RcFrame(rcst'.last.col, rcst'.last.row, rcst'.last.f)
                 /\ OtherSlotsKept(-1, rcst'.last.col, rcst'.last.row)

=============================================================================
